---- MODULE Spec2Model ----
(***************************************************************************)
(* Episode identity resolution and torrent-file disambiguation of the      *)
(* AnimeStream Cloudflare worker (src/cloudflare-worker/worker-github.js). *)
(*                                                                         *)
(* Strings are TLA+ strings; a character is a string of length 1.  The     *)
(* JavaScript regular expressions of the worker are written as syntax      *)
(* trees and run by a backtracking matcher with the JavaScript priorities  *)
(* (leftmost start, first alternative, greedy quantifiers).                *)
(***************************************************************************)
EXTENDS Integers, Sequences, FiniteSets, TLC

VARIABLES
    \* convertToAbsoluteEpisode(imdbId, season, episode)
    absImdbId, absSeason, absEpisode, absResult, absPc,
    \* extractEpisodeInfo(title)
    parseTitle, parseInfo, parsePc,
    \* filterTorrentsByEpisode / validateTorrentEpisode
    valEpisode, valSeason, validation, filtered,
    \* file selection of getAllDebridFiles / resolveRealDebrid
    torrentFiles, reqEpisode, reqSeason, fileIndex, selectedFile, selPc,
    \* findAllAnimeShowForSeason / findAllAnimeShow
    resTitle, resSeason, resImdbId, resMalId, resAniListId,
    resPc, resQueue, resSearches, resHits, resAccepted, resStage, resResult,
    \* handleStream
    streamResponse,
    \* stringSimilarity(str1, str2)
    simA, simB, simScore, simSwapped, simPc,
    \* normalizeTitle(title)
    normTitle, normOnce, normTwice, normPc,
    \* scrobbleToAnilist / scrobbleToMal
    anilistEntry, malEntry, mediaEpisodes, mediaFinished,
    scrEpisode, scrResult, scrPc,
    \* checkRateLimit(ip)
    rateNow, rateLimitMap, rateCheck, rateIp, rateSteps, allowedLog, ratePc,
    \* resolveAllDebrid(magnet, apiKey, fileIndex, episode, season)
    adPc, adAttempts, adPolls, adLastPoll, adResult,
    \* fetchCatalogData()
    catalogCache, filterOptionsCache, cacheTimestamp, catCalls, catRefreshes,
    catLoaded, catClock, catSteps, catPc,
    \* getTorrentStreams(anime, episode, season)
    tsAnidbId, tsAnidb, tsNyaa, tsTosho, tsSynonyms, tsSynonymResults,
    tsCombined, tsPc,
    \* handleStream(catalog, type, id, config, requestUrl): the episode checks
    hsBaseId, hsSeason, hsEpisode, hsAnime, hsShowId, hsTotal, hsAvailable,
    hsAbsolute, hsCalls, hsStreams, hsResponse, hsPc,
    \* resolveDebrid(magnet, infoHash, provider, apiKey, fileIndex, episode, season)
    debridCache, dcStoredBy, dcRequest, dcResult, dcServed, dcClock, dcSteps,
    dcCount, dcPc

absVars == <<absImdbId, absSeason, absEpisode, absResult, absPc>>
parseVars == <<parseTitle, parseInfo, parsePc,
              valEpisode, valSeason, validation, filtered>>
fileVars == <<torrentFiles, reqEpisode, reqSeason, fileIndex, selectedFile, selPc>>
resVars == <<resTitle, resSeason, resImdbId, resMalId, resAniListId,
             resPc, resQueue, resSearches, resHits, resAccepted, resStage,
             resResult, streamResponse>>
simVars == <<simA, simB, simScore, simSwapped, simPc>>
normVars == <<normTitle, normOnce, normTwice, normPc>>
scrVars == <<anilistEntry, malEntry, mediaEpisodes, mediaFinished,
            scrEpisode, scrResult, scrPc>>
rateVars == <<rateNow, rateLimitMap, rateCheck, rateIp, rateSteps, allowedLog,
             ratePc>>
adVars == <<adPc, adAttempts, adPolls, adLastPoll, adResult>>
catVars == <<catalogCache, filterOptionsCache, cacheTimestamp, catCalls,
            catRefreshes, catLoaded, catClock, catSteps, catPc>>
tsVars == <<tsAnidbId, tsAnidb, tsNyaa, tsTosho, tsSynonyms, tsSynonymResults,
           tsCombined, tsPc>>
hsVars == <<hsBaseId, hsSeason, hsEpisode, hsAnime, hsShowId, hsTotal,
           hsAvailable, hsAbsolute, hsCalls, hsStreams, hsResponse, hsPc>>
dcVars == <<debridCache, dcStoredBy, dcRequest, dcResult, dcServed, dcClock,
           dcSteps, dcCount, dcPc>>
vars == <<absVars, parseVars, fileVars, resVars, simVars, normVars, scrVars,
         rateVars,
         adVars,
         catVars,
         tsVars,
         hsVars,
         dcVars>>

\* JavaScript null / undefined: where a string, where a number, where an
\* array or an object is expected
Null == "null"
NoNum == -1
None == <<>>

\* a value that an if, a && or a || of JavaScript takes as true
TruthyNum(x) == x \notin {NoNum, 0}
TruthyStr(x) == x \notin {Null, ""}

-----------------------------------------------------------------------------
(* Strings *)

Ch(s, i) == SubSeq(s, i, i)

UpperStr == "ABCDEFGHIJKLMNOPQRSTUVWXYZ"
LowerStr == "abcdefghijklmnopqrstuvwxyz"
DigitStr == "0123456789"

CharsOf(s) == {Ch(s, i) : i \in 1..Len(s)}

Digits == CharsOf(DigitStr)
UpperLetters == CharsOf(UpperStr)
LowerLetters == CharsOf(LowerStr)

\* String.prototype.toLowerCase on one character
LowerChar(c) ==
    IF c \in UpperLetters
    THEN Ch(LowerStr, CHOOSE i \in 1..26 : Ch(UpperStr, i) = c)
    ELSE c

RECURSIVE ToLowerCase(_)
ToLowerCase(s) ==
    IF s = "" THEN "" ELSE LowerChar(Ch(s, 1)) \o ToLowerCase(SubSeq(s, 2, Len(s)))

\* \w and \s of JavaScript regular expressions
WordChars == Digits \cup UpperLetters \cup LowerLetters \cup {"_"}
SpaceChars == {" ", "\t"}

DigitValue(c) == (CHOOSE i \in 1..10 : Ch(DigitStr, i) = c) - 1

\* parseInt(s, 10) on a string of decimal digits
RECURSIVE ParseInt(_)
ParseInt(s) ==
    IF Len(s) = 0 THEN 0
    ELSE 10 * ParseInt(SubSeq(s, 1, Len(s) - 1)) + DigitValue(Ch(s, Len(s)))

Min(a, b) == IF a < b THEN a ELSE b
Max(a, b) == IF a > b THEN a ELSE b

\* String(n) of a natural number
RECURSIVE NumToString(_)
NumToString(n) ==
    IF n < 10 THEN Ch(DigitStr, n + 1)
    ELSE NumToString(n \div 10) \o Ch(DigitStr, (n % 10) + 1)

\* s.replace(/[^...]/g, '') for the characters of keep between the brackets
RECURSIVE KeepChars(_, _)
KeepChars(s, keep) ==
    IF s = "" THEN ""
    ELSE (IF Ch(s, 1) \in keep THEN Ch(s, 1) ELSE "")
         \o KeepChars(SubSeq(s, 2, Len(s)), keep)

\* String.prototype.trim
RECURSIVE Trim(_)
Trim(s) ==
    IF s = "" THEN ""
    ELSE IF Ch(s, 1) \in SpaceChars THEN Trim(SubSeq(s, 2, Len(s)))
    ELSE IF Ch(s, Len(s)) \in SpaceChars THEN Trim(SubSeq(s, 1, Len(s) - 1))
    ELSE s

\* the concatenation of the sequences of a sequence
RECURSIVE Flatten(_)
Flatten(seqs) ==
    IF seqs = <<>> THEN <<>> ELSE Head(seqs) \o Flatten(Tail(seqs))

\* String.prototype.includes
Includes(s, sub) ==
    \E i \in 1..(Len(s) + 1) :
        /\ i + Len(sub) - 1 <= Len(s)
        /\ SubSeq(s, i, i + Len(sub) - 1) = sub

-----------------------------------------------------------------------------
(* Regular expressions *)

Lit(str) == [t |-> "lit", s |-> str]
Set(chars) == [t |-> "set", cs |-> chars, neg |-> FALSE]
NotSet(chars) == [t |-> "set", cs |-> chars, neg |-> TRUE]
Cat(regs) == [t |-> "seq", rs |-> regs]
Alt(regs) == [t |-> "alt", rs |-> regs]
Rep(reg, min, max) == [t |-> "rep", r |-> reg, lo |-> min, hi |-> max]
Opt(reg) == Rep(reg, 0, 1)
Grp(k, reg) == [t |-> "grp", n |-> k, r |-> reg]
WordB == [t |-> "wb"]
Eos == [t |-> "eos"]
NotAhead(reg) == [t |-> "nla", r |-> reg]

\* a maximum below 0 is no maximum (the quantifiers * and +)
Star(reg) == Rep(reg, 0, -1)
Plus(reg) == Rep(reg, 1, -1)
Dig(min, max) == Rep(Set(Digits), min, max)
Ws == Set(SpaceChars)

NoCaps == [k \in 1..2 |-> Null]

IsWordAt(s, i) == i >= 1 /\ i <= Len(s) /\ Ch(s, i) \in WordChars

CharIn(c, cs, ci) ==
    IF ci THEN \E x \in cs : LowerChar(x) = LowerChar(c) ELSE c \in cs

LitAt(s, p, str, ci) ==
    /\ p + Len(str) - 1 <= Len(s)
    /\ IF ci THEN \A j \in 1..Len(str) :
                     LowerChar(Ch(s, p + j - 1)) = LowerChar(Ch(str, j))
             ELSE SubSeq(s, p, p + Len(str) - 1) = str

RECURSIVE M(_, _, _, _)
RECURSIVE SeqM(_, _, _, _, _)
RECURSIVE AltM(_, _, _, _, _)
RECURSIVE RepM(_, _, _, _, _)
RECURSIVE Each(_, _, _, _, _, _)

\* All ways reg matches s from state st = [pos, caps], best first.
M(reg, s, st, ci) ==
    CASE reg.t = "lit" ->
            IF LitAt(s, st.pos, reg.s, ci)
            THEN <<[st EXCEPT !.pos = st.pos + Len(reg.s)]>> ELSE <<>>
      [] reg.t = "set" ->
            IF /\ st.pos <= Len(s)
               /\ CharIn(Ch(s, st.pos), reg.cs, ci) # reg.neg
            THEN <<[st EXCEPT !.pos = st.pos + 1]>> ELSE <<>>
      [] reg.t = "seq" -> SeqM(reg.rs, 1, s, <<st>>, ci)
      [] reg.t = "alt" -> AltM(reg.rs, 1, s, st, ci)
      [] reg.t = "rep" -> RepM(reg, s, st, 0, ci)
      [] reg.t = "grp" ->
            LET inner == M(reg.r, s, st, ci)
            IN  [i \in 1..Len(inner) |->
                    [inner[i] EXCEPT
                        !.caps[reg.n] = SubSeq(s, st.pos, inner[i].pos - 1)]]
      [] reg.t = "wb" ->
            IF IsWordAt(s, st.pos - 1) # IsWordAt(s, st.pos) THEN <<st>> ELSE <<>>
      [] reg.t = "eos" -> IF st.pos = Len(s) + 1 THEN <<st>> ELSE <<>>
      [] reg.t = "nla" -> IF M(reg.r, s, st, ci) = <<>> THEN <<st>> ELSE <<>>

\* continue every state of sts, in order, with reg (k < 0) or with the
\* rest of the repetition reg of which k rounds are done (k >= 0)
Each(reg, s, sts, i, ci, k) ==
    IF i > Len(sts) THEN <<>>
    ELSE (IF k < 0 THEN M(reg, s, sts[i], ci) ELSE RepM(reg, s, sts[i], k, ci))
         \o Each(reg, s, sts, i + 1, ci, k)

SeqM(rs, i, s, sts, ci) ==
    IF i > Len(rs) \/ sts = <<>> THEN sts
    ELSE SeqM(rs, i + 1, s, Each(rs[i], s, sts, 1, ci, -1), ci)

AltM(rs, i, s, st, ci) ==
    IF i > Len(rs) THEN <<>>
    ELSE M(rs[i], s, st, ci) \o AltM(rs, i + 1, s, st, ci)

RepM(reg, s, st, count, ci) ==
    LET more == IF reg.hi < 0 \/ count < reg.hi
                THEN SelectSeq(M(reg.r, s, st, ci), LAMBDA x : x.pos > st.pos)
                ELSE <<>>
    IN  Each(reg, s, more, 1, ci, count + 1)
        \o (IF count >= reg.lo THEN <<st>> ELSE <<>>)

RECURSIVE SearchFrom(_, _, _, _)
SearchFrom(reg, s, start, ci) ==
    IF start > Len(s) + 1 THEN [found |-> FALSE, caps |-> NoCaps]
    ELSE LET r == M(reg, s, [pos |-> start, caps |-> NoCaps], ci)
         IN  IF r # <<>> THEN [found |-> TRUE, caps |-> r[1].caps]
             ELSE SearchFrom(reg, s, start + 1, ci)

\* String.prototype.match without the g flag; ci is the i flag
Match(reg, s, ci) == SearchFrom(reg, s, 1, ci)
\* RegExp.prototype.test
Test(reg, s, ci) == Match(reg, s, ci).found

-----------------------------------------------------------------------------
(* Episode matching system: extractEpisodeInfo *)

\* Characters outside ASCII are written with ASCII characters that occur in
\* no title of the model; none of them is a word character.
CjkQuan == "{"
CjkHua == "}"
CjkDai == "@"
CjkWa == "$"
CjkKai == "^"

OpenBr == Set({"[", "("})
CloseBr == Set({"]", ")"})
DashTilde == Set({"-", "~"})
Version == Opt(Cat(<<Lit("v"), Plus(Set(Digits))>>))

\* title.replace(/\s+/g, ' ')
RECURSIVE CollapseSpaces(_)
CollapseSpaces(s) ==
    IF s = "" THEN ""
    ELSE IF Ch(s, 1) \in SpaceChars
         THEN IF Len(s) >= 2 /\ Ch(s, 2) \in SpaceChars
              THEN CollapseSpaces(SubSeq(s, 2, Len(s)))
              ELSE " " \o CollapseSpaces(SubSeq(s, 2, Len(s)))
         ELSE Ch(s, 1) \o CollapseSpaces(SubSeq(s, 2, Len(s)))

batchPatterns == <<
    Cat(<<OpenBr, Grp(1, Dig(1, 3)), Star(Ws), DashTilde, Star(Ws),
          Grp(2, Dig(1, 3)), CloseBr>>),
    Cat(<<WordB, Grp(1, Dig(1, 3)), Star(Ws), DashTilde, Star(Ws),
          Grp(2, Dig(1, 3)), Star(Ws),
          Alt(<<Lit("END"), Lit("Complete"), Lit("Batch"), Lit("Fin")>>), WordB>>),
    Cat(<<WordB,
          Alt(<<Lit("Complete"), Lit("Batch"), Lit(CjkQuan \o CjkHua),
                Cat(<<Lit("Season"), Star(Ws), Lit("Pack")>>)>>), WordB>>),
    Cat(<<WordB,
          Alt(<<Cat(<<Lit("Vol"), Opt(Lit("ume")), Opt(Lit(".")), Star(Ws),
                      Plus(Set(Digits)), Star(Ws), DashTilde, Star(Ws),
                      Plus(Set(Digits))>>),
                Cat(<<Lit("BD"), Star(Ws), Lit("Box")>>)>>), WordB>>) >>

sxePattern ==
    Cat(<<WordB, Lit("S"), Opt(Lit("0")), Grp(1, Dig(1, 2)), Star(Ws),
          Lit("E"), Opt(Lit("0")), Grp(2, Dig(1, 4)), Version,
          NotAhead(Set(Digits))>>)
dashEpPattern ==
    Cat(<<Ws, Lit("-"), Ws, Opt(Lit("0")), Grp(1, Dig(1, 4)), Version,
          Alt(<<Ws, Lit("("), Lit("["), Eos>>)>>)
epWordPattern ==
    Cat(<<WordB, Lit("E"), Opt(Cat(<<Lit("p"), Opt(Lit("isode"))>>)),
          Opt(Lit(".")), Star(Ws), Opt(Lit("0")), Grp(1, Dig(1, 4)), Version,
          NotAhead(Set(Digits))>>)
bracketEpPattern ==
    Cat(<<OpenBr, Opt(Lit("0")), Grp(1, Dig(1, 3)), Version, CloseBr>>)
sepEpPattern ==
    Cat(<<Set({".", "_"}), Opt(Lit("0")), Grp(1, Dig(1, 3)), Version,
          Set({".", "_"})>>)
jpEpPattern ==
    Cat(<<Alt(<<Lit("#"), Lit(CjkDai)>>), Opt(Lit("0")), Grp(1, Dig(1, 4)),
          Opt(Alt(<<Lit(CjkWa), Lit(CjkKai),
                    Cat(<<Lit("v"), Plus(Set(Digits))>>)>>))>>)

NoInfo == [episode |-> NoNum, season |-> NoNum, isBatch |-> FALSE, batchRange |-> None]

\* the loop over batchPatterns, from pattern i on
RECURSIVE BatchScan(_, _)
BatchScan(normalized, i) ==
    IF i > Len(batchPatterns) THEN NoInfo
    ELSE LET match == Match(batchPatterns[i], normalized, TRUE)
         IN  IF match.found
             THEN IF TruthyStr(match.caps[1]) /\ TruthyStr(match.caps[2])
                  THEN LET start == ParseInt(match.caps[1])
                           end == ParseInt(match.caps[2])
                       IN  IF start < end /\ end - start < 100
                           THEN [NoInfo EXCEPT !.isBatch = TRUE,
                                               !.batchRange = <<start, end>>]
                           ELSE [NoInfo EXCEPT !.isBatch = TRUE]
                  ELSE [NoInfo EXCEPT !.isBatch = TRUE]
             ELSE BatchScan(normalized, i + 1)

\* the single-episode patterns, most specific first
EpisodeScan(normalized) ==
    LET sxeMatch == Match(sxePattern, normalized, TRUE)
        dashEpMatch == Match(dashEpPattern, normalized, FALSE)
        epWordMatch == Match(epWordPattern, normalized, TRUE)
        bracketEpMatch == Match(bracketEpPattern, normalized, FALSE)
        sepEpMatch == Match(sepEpPattern, normalized, FALSE)
        jpEpMatch == Match(jpEpPattern, normalized, FALSE)
        bracketNum == ParseInt(bracketEpMatch.caps[1])
        sepNum == ParseInt(sepEpMatch.caps[1])
    IN  IF sxeMatch.found
        THEN [NoInfo EXCEPT !.season = ParseInt(sxeMatch.caps[1]),
                            !.episode = ParseInt(sxeMatch.caps[2])]
        ELSE IF dashEpMatch.found
        THEN [NoInfo EXCEPT !.episode = ParseInt(dashEpMatch.caps[1])]
        ELSE IF epWordMatch.found
        THEN [NoInfo EXCEPT !.episode = ParseInt(epWordMatch.caps[1])]
        ELSE IF bracketEpMatch.found /\ bracketNum < 1000 /\ bracketNum > 0
        THEN [NoInfo EXCEPT !.episode = bracketNum]
        ELSE IF sepEpMatch.found /\ sepNum < 500 /\ sepNum > 0
        THEN [NoInfo EXCEPT !.episode = sepNum]
        ELSE IF jpEpMatch.found
        THEN [NoInfo EXCEPT !.episode = ParseInt(jpEpMatch.caps[1])]
        ELSE NoInfo

\* the extraction that goes on to the single-episode patterns after a batch
\* match (no early return)
extractEpisodeInfo_noEarlyReturn(title) ==
    IF title \in {Null, ""} THEN NoInfo
    ELSE LET normalized == CollapseSpaces(title)
             batch == BatchScan(normalized, 1)
             single == EpisodeScan(normalized)
         IN  [single EXCEPT !.isBatch = batch.isBatch,
                            !.batchRange = batch.batchRange]

extractEpisodeInfo(title) ==
    IF title \in {Null, ""} THEN NoInfo
    ELSE LET normalized == CollapseSpaces(title)
             batch == BatchScan(normalized, 1)
         IN  IF batch.isBatch THEN batch ELSE EpisodeScan(normalized)

-----------------------------------------------------------------------------
(* Absolute-episode mapping: EPISODE_SEASON_MAPPINGS, convertToAbsoluteEpisode *)

SeasonRange(n, first, last) == [season |-> n, start |-> first, end |-> last]
\* tt0388629
OnePieceSeasons == <<
    SeasonRange(1, 1, 8),
    SeasonRange(2, 9, 30),
    SeasonRange(3, 31, 47),
    SeasonRange(4, 48, 60),
    SeasonRange(5, 61, 69),
    SeasonRange(6, 70, 91),
    SeasonRange(7, 92, 130),
    SeasonRange(8, 131, 143),
    SeasonRange(9, 144, 195),
    SeasonRange(10, 196, 226),
    SeasonRange(11, 227, 325),
    SeasonRange(12, 326, 381),
    SeasonRange(13, 382, 481),
    SeasonRange(14, 482, 516),
    SeasonRange(15, 517, 578),
    SeasonRange(16, 579, 627),
    SeasonRange(17, 628, 745),
    SeasonRange(18, 746, 778),
    SeasonRange(19, 779, 877),
    SeasonRange(20, 878, 891),
    SeasonRange(21, 892, 1085),
    SeasonRange(22, 1086, 1155),
    SeasonRange(23, 1156, 9999) >>
\* tt0214341
DragonBallZSeasons == <<
    SeasonRange(1, 1, 39),
    SeasonRange(2, 40, 74),
    SeasonRange(3, 75, 107),
    SeasonRange(4, 108, 139),
    SeasonRange(5, 140, 165),
    SeasonRange(6, 166, 194),
    SeasonRange(7, 195, 219),
    SeasonRange(8, 220, 253),
    SeasonRange(9, 254, 291) >>
\* tt0409591
NarutoSeasons == <<
    SeasonRange(1, 1, 35),
    SeasonRange(2, 36, 83),
    SeasonRange(3, 84, 131),
    SeasonRange(4, 132, 179),
    SeasonRange(5, 180, 220) >>
\* tt0988824
NarutoShippudenSeasons == <<
    SeasonRange(1, 1, 32),
    SeasonRange(2, 33, 53),
    SeasonRange(3, 54, 71),
    SeasonRange(4, 72, 88),
    SeasonRange(5, 89, 112),
    SeasonRange(6, 113, 143),
    SeasonRange(7, 144, 151),
    SeasonRange(8, 152, 175),
    SeasonRange(9, 176, 196),
    SeasonRange(10, 197, 222),
    SeasonRange(11, 223, 242),
    SeasonRange(12, 243, 260),
    SeasonRange(13, 261, 295),
    SeasonRange(14, 296, 320),
    SeasonRange(15, 321, 348),
    SeasonRange(16, 349, 361),
    SeasonRange(17, 362, 393),
    SeasonRange(18, 394, 413),
    SeasonRange(19, 414, 431),
    SeasonRange(20, 432, 450),
    SeasonRange(21, 451, 458),
    SeasonRange(22, 459, 500) >>
\* tt0434665
BleachSeasons == <<
    SeasonRange(1, 1, 20),
    SeasonRange(2, 21, 41),
    SeasonRange(3, 42, 63),
    SeasonRange(4, 64, 91),
    SeasonRange(5, 92, 109),
    SeasonRange(6, 110, 131),
    SeasonRange(7, 132, 151),
    SeasonRange(8, 152, 167),
    SeasonRange(9, 168, 189),
    SeasonRange(10, 190, 205),
    SeasonRange(11, 206, 212),
    SeasonRange(12, 213, 229),
    SeasonRange(13, 230, 265),
    SeasonRange(14, 266, 316),
    SeasonRange(15, 317, 342),
    SeasonRange(16, 343, 366),
    SeasonRange(17, 367, 390),
    SeasonRange(18, 391, 9999) >>
\* tt1528406
FairyTailSeasons == <<
    SeasonRange(1, 1, 48),
    SeasonRange(2, 49, 96),
    SeasonRange(3, 97, 150),
    SeasonRange(4, 151, 175),
    SeasonRange(5, 176, 226),
    SeasonRange(6, 227, 265),
    SeasonRange(7, 266, 277),
    SeasonRange(8, 278, 328) >>
\* tt2098220
HunterXHunterSeasons == <<
    SeasonRange(1, 1, 58),
    SeasonRange(2, 59, 136),
    SeasonRange(3, 137, 148) >>
\* tt4644488
DragonBallSuperSeasons == <<
    SeasonRange(1, 1, 14),
    SeasonRange(2, 15, 27),
    SeasonRange(3, 28, 46),
    SeasonRange(4, 47, 76),
    SeasonRange(5, 77, 131) >>
\* tt0131179
DetectiveConanSeasons == <<
    SeasonRange(1, 1, 999999) >>
\* tt6342474
BorutoSeasons == <<
    SeasonRange(1, 1, 293) >>
\* the table with the range of One Piece season 22 typed one episode early
OnePieceSeasonsOverlap == [OnePieceSeasons EXCEPT ![22] = SeasonRange(22, 1085, 1155)]
EPISODE_SEASON_MAPPINGS_overlap ==
    "tt0388629" :> [seasons |-> OnePieceSeasonsOverlap, totalSeasons |-> 23] @@
    "tt0214341" :> [seasons |-> DragonBallZSeasons, totalSeasons |-> 9] @@
    "tt0409591" :> [seasons |-> NarutoSeasons, totalSeasons |-> 5] @@
    "tt0988824" :> [seasons |-> NarutoShippudenSeasons, totalSeasons |-> 22] @@
    "tt0434665" :> [seasons |-> BleachSeasons, totalSeasons |-> 18] @@
    "tt1528406" :> [seasons |-> FairyTailSeasons, totalSeasons |-> 8] @@
    "tt2098220" :> [seasons |-> HunterXHunterSeasons, totalSeasons |-> 3] @@
    "tt4644488" :> [seasons |-> DragonBallSuperSeasons, totalSeasons |-> 5] @@
    "tt0131179" :> [seasons |-> DetectiveConanSeasons, totalSeasons |-> 1] @@
    "tt6342474" :> [seasons |-> BorutoSeasons, totalSeasons |-> 1]

EPISODE_SEASON_MAPPINGS ==
    "tt0388629" :> [seasons |-> OnePieceSeasons, totalSeasons |-> 23] @@
    "tt0214341" :> [seasons |-> DragonBallZSeasons, totalSeasons |-> 9] @@
    "tt0409591" :> [seasons |-> NarutoSeasons, totalSeasons |-> 5] @@
    "tt0988824" :> [seasons |-> NarutoShippudenSeasons, totalSeasons |-> 22] @@
    "tt0434665" :> [seasons |-> BleachSeasons, totalSeasons |-> 18] @@
    "tt1528406" :> [seasons |-> FairyTailSeasons, totalSeasons |-> 8] @@
    "tt2098220" :> [seasons |-> HunterXHunterSeasons, totalSeasons |-> 3] @@
    "tt4644488" :> [seasons |-> DragonBallSuperSeasons, totalSeasons |-> 5] @@
    "tt0131179" :> [seasons |-> DetectiveConanSeasons, totalSeasons |-> 1] @@
    "tt6342474" :> [seasons |-> BorutoSeasons, totalSeasons |-> 1]

\* seasons.find(s => s.season === season): <<s>> for the first entry of the
\* season, None when there is none
FindSeason(seasons, season) ==
    IF \E i \in 1..Len(seasons) : seasons[i].season = season
    THEN <<seasons[CHOOSE i \in 1..Len(seasons) :
                  /\ seasons[i].season = season
                  /\ \A j \in 1..(i - 1) : seasons[j].season # season]>>
    ELSE None

\* the conversion without the cap at the end of the season's range
convertToAbsoluteEpisode_noCap(imdbId, season, episode) ==
    IF imdbId \notin DOMAIN EPISODE_SEASON_MAPPINGS THEN episode
    ELSE LET seasonData == FindSeason(EPISODE_SEASON_MAPPINGS[imdbId].seasons, season)
         IN  IF seasonData = None THEN episode
             ELSE seasonData[1].start + (episode - 1)

\* the conversion that takes the first range when the season has none
convertToAbsoluteEpisode_firstRange(imdbId, season, episode) ==
    IF imdbId \notin DOMAIN EPISODE_SEASON_MAPPINGS THEN episode
    ELSE LET mapping == EPISODE_SEASON_MAPPINGS[imdbId]
             found == FindSeason(mapping.seasons, season)
             seasonData == IF found = None THEN <<mapping.seasons[1]>> ELSE found
             absoluteEpisode == seasonData[1].start + (episode - 1)
         IN  IF absoluteEpisode > seasonData[1].end THEN seasonData[1].end
             ELSE absoluteEpisode

\* the conversion that counts episodes from 0
convertToAbsoluteEpisode_offByOne(imdbId, season, episode) ==
    IF imdbId \notin DOMAIN EPISODE_SEASON_MAPPINGS THEN episode
    ELSE LET seasonData == FindSeason(EPISODE_SEASON_MAPPINGS[imdbId].seasons, season)
             absoluteEpisode == seasonData[1].start + episode
         IN  IF seasonData = None THEN episode
             ELSE IF absoluteEpisode > seasonData[1].end THEN seasonData[1].end
             ELSE absoluteEpisode

convertToAbsoluteEpisode(imdbId, season, episode) ==
    IF imdbId \notin DOMAIN EPISODE_SEASON_MAPPINGS THEN episode
    ELSE LET mapping == EPISODE_SEASON_MAPPINGS[imdbId]
             seasonData == FindSeason(mapping.seasons, season)
             absoluteEpisode == seasonData[1].start + (episode - 1)
         IN  IF seasonData = None THEN episode
             ELSE IF absoluteEpisode > seasonData[1].end THEN seasonData[1].end
             ELSE absoluteEpisode

\* a series of the catalog that has no entry in the table (My Hero Academia)
UnmappedImdbId == "tt5626028"
ImdbIds == DOMAIN EPISODE_SEASON_MAPPINGS \cup {UnmappedImdbId}

\* largest season and episode number of a request
MaxSeason == 24
MaxEpisode == 40

\* handleStream: absoluteEpisode = convertToAbsoluteEpisode(baseId, season, episode)
ConvertToAbsoluteEpisode ==
    /\ absPc = "start"
    /\ absResult' = convertToAbsoluteEpisode(absImdbId, absSeason, absEpisode)
    /\ absPc' = "done"
    /\ UNCHANGED <<absImdbId, absSeason, absEpisode>>
    /\ UNCHANGED <<parseVars, fileVars, resVars, simVars, normVars, scrVars, rateVars, adVars, catVars, tsVars, hsVars, dcVars>>

-----------------------------------------------------------------------------
(* Titles of torrents: concatenations of fragments of release names *)

TitleParts == {
    "[01-12]", "[12-01]", " 01~24 Fin", " Batch", "Show", " - 05",
    " S02E03", " Ep 7", "[06]", "[1080]", ".08.", " #09", "[001-150]" }

\* largest number of fragments in a title
MaxParts == 3

RECURSIVE TitlesOf(_)
TitlesOf(n) ==
    IF n = 0 THEN {""}
    ELSE LET shorter == TitlesOf(n - 1)
         IN  shorter \cup {t \o p : t \in shorter, p \in TitleParts}

Titles == TitlesOf(MaxParts)

\* validateTorrentEpisode: info = extractEpisodeInfo(title)
ExtractEpisodeInfo ==
    /\ parsePc = "start"
    /\ parseInfo' = extractEpisodeInfo(parseTitle)
    /\ parsePc' = "done"
    /\ UNCHANGED <<parseTitle, valEpisode, valSeason, validation, filtered>>
    /\ UNCHANGED <<absVars, fileVars, resVars, simVars, normVars, scrVars, rateVars, adVars, catVars, tsVars, hsVars, dcVars>>

\* the answer of validateTorrentEpisode
Validation(matches, reason, info) ==
    [matches |-> matches, reason |-> reason, info |-> info]

\* the validation that rejects a batch of unknown range
validateTorrentEpisode_rejectUnknownRange(info, requestedEpisode, requestedSeason) ==
    IF info.isBatch
    THEN IF info.batchRange # None
         THEN IF /\ requestedEpisode >= info.batchRange[1]
                 /\ requestedEpisode <= info.batchRange[2]
              THEN Validation(TRUE, "batch_contains_episode", info)
              ELSE Validation(FALSE, "batch_episode_out_of_range", info)
         ELSE Validation(FALSE, "batch_unknown_range", info)
    ELSE IF info.episode = NoNum
    THEN Validation(FALSE, "no_episode_detected", info)
    ELSE IF info.season # NoNum /\ info.season # requestedSeason
    THEN Validation(FALSE, "season_mismatch", info)
    ELSE IF info.episode = requestedEpisode
    THEN Validation(TRUE, "exact_match", info)
    ELSE Validation(FALSE, "episode_mismatch", info)

\* the validation that lets a title without episode number pass
validateTorrentEpisode_lenient(info, requestedEpisode, requestedSeason) ==
    IF info.isBatch
    THEN IF info.batchRange # None
         THEN IF /\ requestedEpisode >= info.batchRange[1]
                 /\ requestedEpisode <= info.batchRange[2]
              THEN Validation(TRUE, "batch_contains_episode", info)
              ELSE Validation(FALSE, "batch_episode_out_of_range", info)
         ELSE Validation(TRUE, "batch_unknown_range", info)
    ELSE IF info.episode = NoNum
    THEN Validation(TRUE, "no_episode_detected", info)
    ELSE IF info.season # NoNum /\ info.season # requestedSeason
    THEN Validation(FALSE, "season_mismatch", info)
    ELSE IF info.episode = requestedEpisode
    THEN Validation(TRUE, "exact_match", info)
    ELSE Validation(FALSE, "episode_mismatch", info)

\* the validation that takes the end of the range of a batch as exclusive
validateTorrentEpisode_exclusiveEnd(info, requestedEpisode, requestedSeason) ==
    IF info.isBatch
    THEN IF info.batchRange # None
         THEN IF /\ requestedEpisode >= info.batchRange[1]
                 /\ requestedEpisode < info.batchRange[2]
              THEN Validation(TRUE, "batch_contains_episode", info)
              ELSE Validation(FALSE, "batch_episode_out_of_range", info)
         ELSE Validation(TRUE, "batch_unknown_range", info)
    ELSE IF info.episode = NoNum
    THEN Validation(FALSE, "no_episode_detected", info)
    ELSE IF info.season # NoNum /\ info.season # requestedSeason
    THEN Validation(FALSE, "season_mismatch", info)
    ELSE IF info.episode = requestedEpisode
    THEN Validation(TRUE, "exact_match", info)
    ELSE Validation(FALSE, "episode_mismatch", info)

\* validateTorrentEpisode(title, requestedEpisode, requestedSeason) behind
\* info = extractEpisodeInfo(title)
validateTorrentEpisode(info, requestedEpisode, requestedSeason) ==
    IF info.isBatch
    THEN IF info.batchRange # None
         THEN IF /\ requestedEpisode >= info.batchRange[1]
                 /\ requestedEpisode <= info.batchRange[2]
              THEN Validation(TRUE, "batch_contains_episode", info)
              ELSE Validation(FALSE, "batch_episode_out_of_range", info)
         ELSE Validation(TRUE, "batch_unknown_range", info)
    ELSE IF info.episode = NoNum
    THEN Validation(FALSE, "no_episode_detected", info)
    ELSE IF info.season # NoNum /\ info.season # requestedSeason
    THEN Validation(FALSE, "season_mismatch", info)
    ELSE IF info.episode = requestedEpisode
    THEN Validation(TRUE, "exact_match", info)
    ELSE Validation(FALSE, "episode_mismatch", info)

\* requested episodes and seasons
ReqEpisodes == {1, 3, 5, 12, 30}
ReqSeasons == {1, 2}

\* filterTorrentsByEpisode([{ title }], episode, season), from the info of the
\* title on: the torrent is pushed to filtered when the validation matches
FilterTorrentsByEpisode ==
    /\ parsePc = "done"
    /\ \E episode \in ReqEpisodes, season \in ReqSeasons :
          /\ valEpisode' = episode
          /\ valSeason' = season
          /\ validation' = <<validateTorrentEpisode(parseInfo, episode, season)>>
          /\ filtered' =
                IF validateTorrentEpisode(parseInfo, episode, season).matches
                THEN <<[title |-> parseTitle,
                        episodeInfo |-> parseInfo,
                        matchReason |->
                            validateTorrentEpisode(parseInfo, episode, season).reason]>>
                ELSE <<>>
    /\ parsePc' = "filtered"
    /\ UNCHANGED <<parseTitle, parseInfo>>
    /\ UNCHANGED <<absVars, fileVars, resVars, simVars, normVars, scrVars, rateVars, adVars, catVars, tsVars, hsVars, dcVars>>

-----------------------------------------------------------------------------
(* Debrid file selection: getAllDebridFiles, resolveRealDebrid *)

\* /\.(mkv|mp4|avi|webm|ts|m2ts)$/i
VideoExtPattern ==
    Cat(<<Lit("."),
          Alt(<<Lit("mkv"), Lit("mp4"), Lit("avi"), Lit("webm"), Lit("ts"),
                Lit("m2ts")>>), Eos>>)

\* /(NCOP|NCED|Preview|Special|SP[^a-z]|OVA|Menu|Trailer|PV|CM|Bonus)/i
NonEpisodePattern ==
    Alt(<<Lit("NCOP"), Lit("NCED"), Lit("Preview"), Lit("Special"),
          Cat(<<Lit("SP"), NotSet(LowerLetters)>>), Lit("OVA"), Lit("Menu"),
          Lit("Trailer"), Lit("PV"), Lit("CM"), Lit("Bonus")>>)

\* path.split('/').pop()
RECURSIVE LastSegment(_)
LastSegment(path) ==
    IF Includes(path, "/")
    THEN LastSegment(SubSeq(path, 2, Len(path)))
    ELSE path

\* insert x into the sequence sorted by size (largest first when desc),
\* behind the elements of the same size
RECURSIVE InsertBySize(_, _, _)
InsertBySize(sorted, x, desc) ==
    IF sorted = <<>> THEN <<x>>
    ELSE IF (desc /\ x.s > Head(sorted).s) \/ (~desc /\ x.s < Head(sorted).s)
         THEN <<x>> \o sorted
         ELSE <<Head(sorted)>> \o InsertBySize(Tail(sorted), x, desc)

\* Array.prototype.sort with a comparison of sizes: stable
RECURSIVE SortBySize(_, _)
SortBySize(seq, desc) ==
    IF seq = <<>> THEN <<>>
    ELSE InsertBySize(SortBySize(SubSeq(seq, 1, Len(seq) - 1), desc),
                      seq[Len(seq)], desc)

\* the sort with the comparison a - b in place of b - a
SortBySizeDesc_ascending(files) == SortBySize(files, FALSE)

\* files.sort((a, b) => b.size - a.size): largest first
SortBySizeDesc(files) == SortBySize(files, TRUE)

\* names and folders of the files of a torrent
FileNames == {
    [dir |-> "", n |-> "Show - 05 (720p).mkv"],
    [dir |-> "", n |-> "Show - 06 (720p).mkv"],
    [dir |-> "", n |-> "Show S02E05.mp4"],
    [dir |-> "", n |-> "Show NCOP - 05 (720p).mkv"],
    [dir |-> "", n |-> "Show - 05.srt"],
    [dir |-> "/Bonus", n |-> "Show - 05 (720p).mkv"] }

\* the path Real-Debrid reports for a file of the listing
RdPath(item) == item.dir \o "/" \o item.n

\* The file names and paths of the model with the results of the three
\* functions of names that the selection calls, evaluated once.
KnownNames == {f.n : f \in FileNames} \cup {RdPath(f) : f \in FileNames}
VideoExtOf == [x \in KnownNames |-> Test(VideoExtPattern, x, TRUE)]
NonEpisodeOf == [x \in KnownNames |-> Test(NonEpisodePattern, x, TRUE)]
LastSegmentOf == [x \in KnownNames |-> LastSegment(x)]
BaseNames == {LastSegmentOf[x] : x \in KnownNames}
EpisodeInfoOf == [x \in BaseNames |-> extractEpisodeInfo(x)]

\* /\.(mkv|mp4|avi|webm|ts|m2ts)$/i.test(name)
IsVideoFile(name) == VideoExtOf[name]
\* /(NCOP|NCED|...|Bonus)/i.test(name)
IsNonEpisodeFile(name) == NonEpisodeOf[name]
\* extractEpisodeInfo(name.split('/').pop()); a name of AllDebrid has no '/'
EpisodeInfoOfFile(name) == EpisodeInfoOf[LastSegmentOf[name]]

\* getAllDebridFiles: the flattened listing, video files that have a link
AllDebridVideoFiles(listing) ==
    SelectSeq(listing, LAMBDA item : IsVideoFile(item.n))

\* info.episode === episode, and the season of the name is absent or season
InfoMatches(info, episode, season) ==
    /\ info.episode = episode
    /\ ~(info.season # NoNum /\ info.season # season)

\* the files of getAllDebridFiles' loop that are pushed to candidates
AllDebridCandidates(videoFiles, episode, season) ==
    SelectSeq(videoFiles, LAMBDA file :
        /\ ~IsNonEpisodeFile(file.n)
        /\ InfoMatches(EpisodeInfoOfFile(file.n), episode, season))

\* The selection both providers make from the video files and the
\* candidates: the largest candidate when an episode is requested of several
\* video files; otherwise, or without candidate, the file at the index or
\* else the largest video file. <<file>>, or None without video file.
SelectedFile(videoFiles, candidates, index, episode) ==
    IF TruthyNum(episode) /\ Len(videoFiles) > 1 /\ Len(candidates) > 0
    THEN <<SortBySizeDesc(candidates)[1]>>
    ELSE IF index + 1 <= Len(videoFiles) THEN <<videoFiles[index + 1]>>
    ELSE IF Len(videoFiles) > 0 THEN <<SortBySizeDesc(videoFiles)[1]>>
    ELSE None

\* <<file>> for the file getAllDebridFiles unlocks; None when it throws
\* (no video file)
getAllDebridFiles(listing, index, episode, season) ==
    SelectedFile(AllDebridVideoFiles(listing),
                 AllDebridCandidates(AllDebridVideoFiles(listing), episode, season),
                 index, episode)

\* resolveRealDebrid: files.filter(f => video extension test on f.path)
RealDebridVideoFiles(listing) ==
    SelectSeq(listing, LAMBDA f : IsVideoFile(RdPath(f)))

\* the files of resolveRealDebrid's loop that are pushed to candidates
RealDebridCandidates(videoFiles, episode, season) ==
    SelectSeq(videoFiles, LAMBDA file :
        /\ ~IsNonEpisodeFile(RdPath(file))
        /\ InfoMatches(EpisodeInfoOfFile(RdPath(file)), episode, season))

\* <<file>> for the file resolveRealDebrid selects when the torrent waits
\* for a file selection; None when it throws (no video file)
resolveRealDebrid(listing, index, episode, season) ==
    SelectedFile(RealDebridVideoFiles(listing),
                 RealDebridCandidates(RealDebridVideoFiles(listing), episode, season),
                 index, episode)

FileSizes == {400, 900}

\* largest number of files in a torrent
MaxFiles == 3

Listings ==
    UNION {[1..k -> FileNames \X FileSizes] : k \in 1..MaxFiles}

\* the listing with the position of every file as its id
WithIds(l) ==
    [i \in 1..Len(l) |-> [id |-> i, dir |-> l[i][1].dir, n |-> l[i][1].n, s |-> l[i][2]]]

\* getAllDebridFiles(magnetId, apiKey, fileIndex, episode, season)
GetAllDebridFiles ==
    /\ selPc = "start"
    /\ selectedFile' = getAllDebridFiles(torrentFiles, fileIndex, reqEpisode, reqSeason)
    /\ selPc' = "alldebrid"
    /\ UNCHANGED <<torrentFiles, reqEpisode, reqSeason, fileIndex>>
    /\ UNCHANGED <<absVars, parseVars, resVars, simVars, normVars, scrVars, rateVars, adVars, catVars, tsVars, hsVars, dcVars>>

\* resolveRealDebrid(magnet, apiKey, fileIndex, episode, season), step 3
ResolveRealDebrid ==
    /\ selPc = "start"
    /\ selectedFile' = resolveRealDebrid(torrentFiles, fileIndex, reqEpisode, reqSeason)
    /\ selPc' = "realdebrid"
    /\ UNCHANGED <<torrentFiles, reqEpisode, reqSeason, fileIndex>>
    /\ UNCHANGED <<absVars, parseVars, resVars, simVars, normVars, scrVars, rateVars, adVars, catVars, tsVars, hsVars, dcVars>>

-----------------------------------------------------------------------------
(* Fuzzy matcher: levenshteinDistance, stringSimilarity *)

\* row i of the table dp for the character c = str1[i - 1]: cur holds
\* dp[i][0 .. Len(cur) - 1], prev is row i - 1
RECURSIVE LevRow(_, _, _, _)
LevRow(c, str2, prev, cur) ==
    IF Len(cur) = Len(str2) + 1 THEN cur
    ELSE LevRow(c, str2, prev,
                Append(cur, Min(Min(prev[Len(cur) + 1] + 1, cur[Len(cur)] + 1),
                                prev[Len(cur)]
                                  + (IF c = Ch(str2, Len(cur)) THEN 0 ELSE 1))))

\* the table dp, of which the rows dp[0 .. Len(dp) - 1] are filled
RECURSIVE LevRows(_, _, _)
LevRows(str1, str2, dp) ==
    IF Len(dp) = Len(str1) + 1 THEN dp
    ELSE LevRows(str1, str2,
                 Append(dp, LevRow(Ch(str1, Len(dp)), str2, dp[Len(dp)],
                                   <<Len(dp)>>)))

levenshteinDistance(str1, str2) ==
    IF Len(str1) = 0 THEN Len(str2)
    ELSE IF Len(str2) = 0 THEN Len(str1)
    ELSE LevRows(str1, str2, <<[j \in 1..(Len(str2) + 1) |-> j - 1]>>)
            [Len(str1) + 1][Len(str2) + 1]

\* A score is a fraction <<numerator, denominator>> with a positive
\* denominator, so that no rounding enters a comparison.
RatGT(a, b) == a[1] * b[2] > b[1] * a[2]
RatGE(a, b) == a[1] * b[2] >= b[1] * a[2]
RatMax(a, b) == IF RatGT(b, a) THEN b ELSE a
RatPlus(a, n) == <<a[1] + n * a[2], a[2]>>
RatTimes(a, num, den) == <<a[1] * num, a[2] * den>>
Whole(n) == <<n, 1>>

\* stringSimilarity that takes the length of the first string for the
\* longer one
stringSimilarity_byFirstLength(str1, str2) ==
    IF Max(Len(str1), Len(str2)) = 0 THEN Whole(100)
    ELSE <<(Max(Len(str1), 1) - levenshteinDistance(str1, str2)) * 100,
           Max(Len(str1), 1)>>

\* stringSimilarity without the case of two empty strings
stringSimilarity_emptyIsZero(str1, str2) ==
    IF Max(Len(str1), Len(str2)) = 0 THEN Whole(0)
    ELSE <<(Max(Len(str1), Len(str2)) - levenshteinDistance(str1, str2)) * 100,
           Max(Len(str1), Len(str2))>>

\* ((maxLen - distance) / maxLen) * 100
stringSimilarity(str1, str2) ==
    IF Max(Len(str1), Len(str2)) = 0 THEN Whole(100)
    ELSE <<(Max(Len(str1), Len(str2)) - levenshteinDistance(str1, str2)) * 100,
           Max(Len(str1), Len(str2))>>

\* The stream handler of the addon (src/unnamed/part_000) has its own
\* levenshteinDistance and stringSimilarity.  Row i of its table dp:
RECURSIVE HandlerLevRow(_, _, _, _)
HandlerLevRow(c, str2, prev, cur) ==
    IF Len(cur) = Len(str2) + 1 THEN cur
    ELSE HandlerLevRow(c, str2, prev,
            Append(cur, IF c = Ch(str2, Len(cur))
                        THEN prev[Len(cur)]
                        ELSE 1 + Min(Min(prev[Len(cur) + 1], cur[Len(cur)]),
                                     prev[Len(cur)])))

RECURSIVE HandlerLevRows(_, _, _)
HandlerLevRows(str1, str2, dp) ==
    IF Len(dp) = Len(str1) + 1 THEN dp
    ELSE HandlerLevRows(str1, str2,
            Append(dp, HandlerLevRow(Ch(str1, Len(dp)), str2, dp[Len(dp)],
                                     <<Len(dp)>>)))

handlerLevenshteinDistance(str1, str2) ==
    HandlerLevRows(str1, str2, <<[j \in 1..(Len(str2) + 1) |-> j - 1]>>)
        [Len(str1) + 1][Len(str2) + 1]

\* Math.round(x) of the fraction x >= 0: the nearest integer, halves upwards
MathRound(x) == (2 * x[1] + x[2]) \div (2 * x[2])

\* Math.round((1 - distance / maxLen) * 100), as a whole score.  The doubles
\* of the program give the same integer as the exact fraction for every
\* maxLen below 40.
handlerStringSimilarity(str1, str2) ==
    IF Max(Len(str1), Len(str2)) = 0 THEN Whole(100)
    ELSE Whole(MathRound(
            <<(Max(Len(str1), Len(str2)) - handlerLevenshteinDistance(str1, str2))
                  * 100,
              Max(Len(str1), Len(str2))>>))

\* The strings that are compared: all strings over SimAlphabet up to MaxSimLen
\* characters, and two normalized titles.
SimAlphabet == {"a", "b"}
MaxSimLen == 3

RECURSIVE StringsUpTo(_)
StringsUpTo(n) ==
    IF n = 0 THEN {""}
    ELSE StringsUpTo(n - 1) \cup {s \o c : s \in StringsUpTo(n - 1), c \in SimAlphabet}

SimStrings == StringsUpTo(MaxSimLen) \cup {"naruto", "narutoshippuden"}

\* stringSimilarity of the worker, for a pair of strings and for the swapped
\* pair
StringSimilarity ==
    /\ simPc = "start"
    /\ simScore' = stringSimilarity(simA, simB)
    /\ simSwapped' = stringSimilarity(simB, simA)
    /\ simPc' = "worker"
    /\ UNCHANGED <<simA, simB>>
    /\ UNCHANGED <<absVars, parseVars, fileVars, resVars, normVars, scrVars, rateVars, adVars, catVars, tsVars, hsVars, dcVars>>

\* stringSimilarity of the stream handler, likewise
HandlerStringSimilarity ==
    /\ simPc = "start"
    /\ simScore' = handlerStringSimilarity(simA, simB)
    /\ simSwapped' = handlerStringSimilarity(simB, simA)
    /\ simPc' = "handler"
    /\ UNCHANGED <<simA, simB>>
    /\ UNCHANGED <<absVars, parseVars, fileVars, resVars, normVars, scrVars, rateVars, adVars, catVars, tsVars, hsVars, dcVars>>

-----------------------------------------------------------------------------
(* Show-identity resolver: findAllAnimeShowForSeason, findAllAnimeShow *)

DIRECT_ALLANIME_IDS ==
    "tt5626028:1" :> "gKwRaeqdMMkgmCLZw" @@
    "tt5626028:2" :> "JYfouPvxtkY5923Me" @@
    "tt5626028:3" :> "9ufLY3tw89ppeMhSK" @@
    "tt5626028:4" :> "f2EZhiqts8FwRYi8E" @@
    "tt5626028:5" :> "8XhppLabWy7vJ8v76" @@
    "tt5626028:6" :> "Yr7ha4n76ofd7BeSX" @@
    "tt5626028:7" :> "cskJzx6rseAgcGcAe" @@
    "tt21209876:1" :> "B6AMhLy6EQHDgYgBF" @@
    "tt21209876:2" :> "9NdrgcZjsp7HEJ5oK" @@
    "tt9335498:1" :> "gvwLtiYciaenJRoFy" @@
    "tt9335498:2" :> "ECmu5W4MPnKNFXqPZ" @@
    "tt9335498:3" :> "SJms742bSTrcyJZay" @@
    "tt9335498:4" :> "XJzfDyv8vsXWCMkTk" @@
    "tt9335498:5" :> "ubGJNAmJmdKSjNBSX" @@
    "tt12343534:1" :> "8Ti9Lnd3gW7TgeCXj"

\* Object.entries(TITLE_ALIASES)
TITLE_ALIASES == <<
    [key |-> "my hero academia", terms |-> <<"Boku no Hero Academia">>],
    [key |-> "attack on titan", terms |-> <<"Shingeki no Kyojin">>],
    [key |-> "demon slayer", terms |-> <<"Kimetsu no Yaiba">>],
    [key |-> "jujutsu kaisen", terms |-> <<"Jujutsu Kaisen">>],
    [key |-> "solo leveling",
     terms |-> <<"Ore dake Level Up na Ken", "Solo Leveling">>],
    [key |-> "dark moon: kuro no tsuki - tsuki no saidan",
     terms |-> <<"Dark Moon: Tsuki no Saidan", "Dark Moon: The Blood Altar">>],
    [key |-> "dark moon: kuro no tsuki",
     terms |-> <<"Dark Moon: Tsuki no Saidan", "Dark Moon: The Blood Altar">>],
    [key |-> "monogatari series: off & monster season",
     terms |-> <<"Monogatari Series: Off & Monster Season",
                 "Monogatari Off Monster">>] >>

\* Object.entries(seasonMappings)
seasonMappings == <<
    [baseName |-> "solo leveling", seasons |->
        1 :> <<"Solo Leveling">> @@
        2 :> <<"Solo Leveling Season 2", "Solo Leveling -Arise from the Shadow-",
               "Solo Leveling Arise from the Shadow">>],
    [baseName |-> "jujutsu kaisen", seasons |->
        1 :> <<"Jujutsu Kaisen">> @@
        2 :> <<"Jujutsu Kaisen Season 2", "Jujutsu Kaisen 2nd Season">> @@
        3 :> <<"Jujutsu Kaisen: The Culling Game", "Jujutsu Kaisen Season 3",
               "Jujutsu Kaisen Culling Game">>],
    [baseName |-> "attack on titan", seasons |->
        1 :> <<"Shingeki no Kyojin">> @@
        2 :> <<"Shingeki no Kyojin Season 2">> @@
        3 :> <<"Shingeki no Kyojin Season 3">> @@
        4 :> <<"Shingeki no Kyojin: The Final Season",
               "Attack on Titan Final Season">>],
    [baseName |-> "my hero academia", seasons |->
        1 :> <<"Boku no Hero Academia">> @@
        2 :> <<"Boku no Hero Academia 2nd Season">> @@
        3 :> <<"Boku no Hero Academia 3rd Season">> @@
        4 :> <<"Boku no Hero Academia 4th Season">> @@
        5 :> <<"Boku no Hero Academia 5th Season">> @@
        6 :> <<"Boku no Hero Academia 6th Season">> @@
        7 :> <<"Boku no Hero Academia 7th Season",
               "My Hero Academia Final Season">>],
    [baseName |-> "demon slayer", seasons |->
        1 :> <<"Kimetsu no Yaiba">> @@
        2 :> <<"Kimetsu no Yaiba: Yuukaku-hen",
               "Demon Slayer: Entertainment District Arc">> @@
        3 :> <<"Kimetsu no Yaiba: Katanakaji no Sato-hen",
               "Demon Slayer: Swordsmith Village Arc">> @@
        4 :> <<"Kimetsu no Yaiba: Hashira Geiko-hen",
               "Demon Slayer: Hashira Training Arc">>] >>

\* a % b of JavaScript for b > 0: the remainder has the sign of a
JsRem(a, b) == IF a >= 0 THEN a % b ELSE 0 - ((0 - a) % b)

\* s[idx] of a JavaScript array; Null for undefined
ElementAt(s, idx) == IF idx \in 0..(Len(s) - 1) THEN s[idx + 1] ELSE Null

\* s[(v - 20) % 10] || s[v] || s[0]
FirstDefined(s, idx1, idx2) ==
    IF ElementAt(s, idx1) # Null THEN ElementAt(s, idx1)
    ELSE IF ElementAt(s, idx2) # Null THEN ElementAt(s, idx2)
    ELSE ElementAt(s, 0)

getOrdinalSuffix(n) ==
    FirstDefined(<<"th", "st", "nd", "rd">>, JsRem((n % 100) - 20, 10), n % 100)

\* aliasKey matches the title of findAllAnimeShow
AliasKeyMatches(title, aliasKey) ==
    \/ Includes(ToLowerCase(title), aliasKey)
    \/ Includes(aliasKey, ToLowerCase(title))

\* findAllAnimeShow(title, ...): the searches it makes as long as none is
\* accepted, in order: searchAllAnime(searchTerm, 5) for the terms of the
\* matching aliases, then searchAllAnime(title, 15). via tells which loop of
\* findAllAnimeShowForSeason made the call.
FindShowSearches(title, via) ==
    IF ~TruthyStr(title) THEN <<>>
    ELSE Flatten([i \in 1..Len(TITLE_ALIASES) |->
                    IF AliasKeyMatches(title, TITLE_ALIASES[i].key)
                    THEN [j \in 1..Len(TITLE_ALIASES[i].terms) |->
                            [q |-> TITLE_ALIASES[i].terms[j], limit |-> 5,
                             kind |-> "alias", via |-> via]]
                    ELSE <<>>])
         \o <<[q |-> title, limit |-> 15, kind |-> "generic", via |-> via]>>

\* title.toLowerCase().replace(/[^a-z0-9\s]/g, '').trim()
NormalizedBaseTitle(title) ==
    Trim(KeepChars(ToLowerCase(title), LowerLetters \cup Digits \cup SpaceChars))

\* the search terms of the season in the matching entries of seasonMappings
SeasonTerms(normalizedBaseTitle, season) ==
    Flatten([i \in 1..Len(seasonMappings) |->
        IF /\ \/ Includes(normalizedBaseTitle, seasonMappings[i].baseName)
              \/ Includes(seasonMappings[i].baseName, normalizedBaseTitle)
           /\ season \in DOMAIN seasonMappings[i].seasons
        THEN seasonMappings[i].seasons[season]
        ELSE <<>>])

searchStrategies(title, season) ==
    IF season = 1 THEN <<title>>
    ELSE << title \o " Season " \o NumToString(season),
            title \o " " \o NumToString(season) \o getOrdinalSuffix(season)
                  \o " Season",
            title \o " Part " \o NumToString(season),
            title >>

\* the searches of the calls of findAllAnimeShow that a sequence of search
\* terms makes
SearchesOf(terms, via) ==
    Flatten([i \in 1..Len(terms) |-> FindShowSearches(terms[i], via)])

\* findAllAnimeShowForSeason behind the pinned table: all searches it makes
\* as long as none is accepted
ResolverSearches(title, season) ==
    SearchesOf(SeasonTerms(NormalizedBaseTitle(title), season), "season")
    \o SearchesOf(searchStrategies(title, season), "strategy")

\* (malId && r.malId === malId) || (aniListId && r.aniListId === aniListId)
IdMatches(r, malId, aniListId) ==
    \/ TruthyNum(malId) /\ r.malId = malId
    \/ TruthyNum(aniListId) /\ r.aniListId = aniListId

\* results.find(r => id match): <<r>> or None
FindIdMatch(results, malId, aniListId) ==
    IF \E i \in 1..Len(results) : IdMatches(results[i], malId, aniListId)
    THEN <<results[CHOOSE i \in 1..Len(results) :
                /\ IdMatches(results[i], malId, aniListId)
                /\ \A j \in 1..(i - 1) : ~IdMatches(results[j], malId, aniListId)]>>
    ELSE None

\* the alias loop that accepts the first result without verification
AliasHit_unverified(results, malId, aniListId) ==
    IF Len(results) = 0 THEN None ELSE <<results[1]>>

\* the show the alias loop of findAllAnimeShow accepts from the results of
\* one search: <<show>> or None
AliasHit(results, malId, aniListId) ==
    IF Len(results) = 0 THEN None
    ELSE IF TruthyNum(malId) \/ TruthyNum(aniListId)
    THEN FindIdMatch(results, malId, aniListId)
    ELSE <<results[1]>>

\* s.toLowerCase().replace(/[^a-z0-9]/g, ''), of (s || '')
NormalizedName(s) ==
    IF s = Null THEN "" ELSE KeepChars(ToLowerCase(s), LowerLetters \cup Digits)

\* the score of one show of the results in the fuzzy stage of findAllAnimeShow
ShowScore(normalizedSearchTitle, showName, nativeTitle, type) ==
    RatPlus(IF showName = normalizedSearchTitle THEN Whole(100)
            ELSE IF \/ Includes(showName, normalizedSearchTitle)
                    \/ Includes(normalizedSearchTitle, showName)
            THEN Whole(80)
            ELSE RatTimes(RatMax(stringSimilarity(normalizedSearchTitle, showName),
                                 stringSimilarity(normalizedSearchTitle, nativeTitle)),
                          9, 10),
            IF type = "TV" THEN 3 ELSE IF type = "Movie" THEN 2 ELSE 0)

\* Shows of the AllAnime index as searchAllAnime returns them
AllAnimeShows == {
    [id |-> "B6AMhLy6EQHDgYgBF", title |-> "Solo Leveling",
     nativeTitle |-> "Ore dake Level Up na Ken", type |-> "TV",
     malId |-> 52299, aniListId |-> 151807],
    [id |-> "9NdrgcZjsp7HEJ5oK", title |-> "Solo Leveling Season 2",
     nativeTitle |-> Null, type |-> "TV", malId |-> 58567, aniListId |-> NoNum],
    [id |-> "ReAwakening", title |-> "Solo Leveling ReAwakening",
     nativeTitle |-> Null, type |-> "Movie", malId |-> NoNum, aniListId |-> NoNum],
    [id |-> "8Ti9Lnd3gW7TgeCXj", title |-> "Jujutsu Kaisen",
     nativeTitle |-> "Jujutsu Kaisen", type |-> "TV",
     malId |-> 40748, aniListId |-> 113415],
    [id |-> "SoloCamping", title |-> "Solo Camping for Two",
     nativeTitle |-> "Futari Solo Camp", type |-> "Special",
     malId |-> NoNum, aniListId |-> 151807] }

ShowById(showId) == CHOOSE show \in AllAnimeShows : show.id = showId

\* titles, series ids and crosswalk ids of the requests
ResTitles == {"", "Solo Leveling", "Jujutsu Kaisen", "Solo Camp"}
ResImdbIds == {Null, "tt21209876", "tt12343534"}
ResMalIds == {NoNum, 58567}
ResAniListIds == {NoNum, 151807}

\* largest season of a request, largest number of results of a search
MaxResSeason == 2
MaxResults == 2

\* the results a search can have: up to MaxResults different shows, in any
\* order; the empty list is also the result of a failed request
ResultLists ==
    UNION {{r \in [1..n -> AllAnimeShows] :
                \A i, j \in 1..n : i # j => r[i] # r[j]} : n \in 0..MaxResults}

\* The titles findAllAnimeShow is called with for the requests of the model,
\* and the score of every show under every such title, evaluated once.
SearchTitles ==
    UNION {{ResolverSearches(t, s)[i].q : i \in 1..Len(ResolverSearches(t, s))} :
                t \in ResTitles, s \in 1..MaxResSeason}
ScoreOf ==
    [t \in SearchTitles |-> [show \in AllAnimeShows |->
        ShowScore(NormalizedName(t), NormalizedName(show.title),
                  NormalizedName(show.nativeTitle), show.type)]]

NoBest == [match |-> None, score |-> Whole(0)]
NoHit == [show |-> None, stage |-> Null]

\* the loop over results of the fuzzy stage, from result i on
RECURSIVE BestMatch(_, _, _, _)
BestMatch(title, results, i, best) ==
    IF i > Len(results) THEN best
    ELSE BestMatch(title, results, i + 1,
            IF RatGT(ScoreOf[title][results[i]], best.score)
            THEN [match |-> <<results[i]>>, score |-> ScoreOf[title][results[i]]]
            ELSE best)

\* the threshold test that stays at 60 when crosswalk ids were supplied
FuzzyHit_defaultThreshold(best, threshold) ==
    IF best.match # None /\ RatGE(best.score, Whole(60))
    THEN [show |-> best.match, stage |-> "fuzzy"]
    ELSE NoHit

\* bestMatch && bestScore >= threshold
FuzzyHit(best, threshold) ==
    IF best.match # None /\ RatGE(best.score, Whole(threshold))
    THEN [show |-> best.match, stage |-> "fuzzy"]
    ELSE NoHit

\* the generic search that ranks by title first and looks for an id match
\* only when no title passes the threshold
GenericHit_scoreFirst(title, results, malId, aniListId) ==
    IF Len(results) = 0 THEN NoHit
    ELSE IF FuzzyHit(BestMatch(title, results, 1, NoBest),
                     IF TruthyNum(malId) \/ TruthyNum(aniListId) THEN 75 ELSE 60)
            # NoHit
    THEN FuzzyHit(BestMatch(title, results, 1, NoBest),
                  IF TruthyNum(malId) \/ TruthyNum(aniListId) THEN 75 ELSE 60)
    ELSE IF /\ TruthyNum(malId) \/ TruthyNum(aniListId)
            /\ FindIdMatch(results, malId, aniListId) # None
    THEN [show |-> FindIdMatch(results, malId, aniListId), stage |-> "id"]
    ELSE NoHit

\* findAllAnimeShow behind the alias loop, on the results of
\* searchAllAnime(title, 15)
GenericHit(title, results, malId, aniListId) ==
    IF Len(results) = 0 THEN NoHit
    ELSE IF /\ TruthyNum(malId) \/ TruthyNum(aniListId)
            /\ FindIdMatch(results, malId, aniListId) # None
    THEN [show |-> FindIdMatch(results, malId, aniListId), stage |-> "id"]
    ELSE FuzzyHit(BestMatch(title, results, 1, NoBest),
                  IF TruthyNum(malId) \/ TruthyNum(aniListId) THEN 75 ELSE 60)

\* what findAllAnimeShow does with the results of the search e
SearchHit(e, results, malId, aniListId) ==
    IF e.kind = "alias"
    THEN IF AliasHit(results, malId, aniListId) # None
         THEN [show |-> AliasHit(results, malId, aniListId), stage |-> "alias"]
         ELSE NoHit
    ELSE GenericHit(e.q, results, malId, aniListId)

\* `${imdbId}:${season}`
DirectKey(imdbId, season) == imdbId \o ":" \o NumToString(season)

\* findAllAnimeShowForSeason(title, season, imdbId, malId, aniListId) up to
\* its first search
FindAllAnimeShowForSeason ==
    /\ resPc = "start"
    /\ IF ~TruthyStr(resTitle)
       THEN /\ resResult' = Null
            /\ resStage' = Null
            /\ resPc' = "done"
            /\ resQueue' = <<>>
       ELSE IF /\ TruthyStr(resImdbId)
               /\ DirectKey(resImdbId, resSeason) \in DOMAIN DIRECT_ALLANIME_IDS
       THEN /\ resResult' = DIRECT_ALLANIME_IDS[DirectKey(resImdbId, resSeason)]
            /\ resStage' = "pinned"
            /\ resPc' = "done"
            /\ resQueue' = <<>>
       ELSE /\ resResult' = Null
            /\ resStage' = Null
            /\ resPc' = "search"
            /\ resQueue' = ResolverSearches(resTitle, resSeason)
    /\ UNCHANGED <<resTitle, resSeason, resImdbId, resMalId, resAniListId,
                   resSearches, resHits, resAccepted, streamResponse>>
    /\ UNCHANGED <<absVars, parseVars, fileVars, simVars, normVars, scrVars, rateVars, adVars, catVars, tsVars, hsVars, dcVars>>

\* the step of the resolver from the results of the search e: return the
\* accepted show, or go on with the next search, or return null after the
\* last
SearchStep(e, results, hit) ==
    /\ resSearches' = Append(resSearches, [q |-> e.q, limit |-> e.limit])
    /\ resHits' = results
    /\ IF hit.show # None
       THEN /\ resResult' = hit.show[1].id
            /\ resStage' = hit.stage
            /\ resAccepted' = <<e>>
            /\ resQueue' = <<>>
            /\ resPc' = "done"
       ELSE /\ resResult' = Null
            /\ resStage' = Null
            /\ resAccepted' = None
            /\ resQueue' = Tail(resQueue)
            /\ resPc' = IF Len(resQueue) = 1 THEN "done" ELSE "search"

\* searchAllAnime(query, limit) answers the pending search of the resolver.
\* Its cache is not modelled: an entry expires, so a repeated query can have
\* other results than before, and every answer is any list of ResultLists.
SearchAllAnime ==
    /\ resPc = "search"
    /\ \E results \in ResultLists :
          SearchStep(Head(resQueue), results,
                     SearchHit(Head(resQueue), results, resMalId, resAniListId))
    /\ UNCHANGED <<resTitle, resSeason, resImdbId, resMalId, resAniListId,
                   streamResponse>>
    /\ UNCHANGED <<absVars, parseVars, fileVars, simVars, normVars, scrVars, rateVars, adVars, catVars, tsVars, hsVars, dcVars>>

\* the answers of handleStream: an object with the stream list
StreamResponse(streams) == [error |-> Null, streams |-> streams]

\* handleStream that raises the missing show as an error
HandleStreamResponses_throws(showId) ==
    IF ~TruthyStr(showId)
    THEN {[error |-> "No show found", streams |-> <<>>]}
    ELSE {StreamResponse(<<>>),
          StreamResponse(<<"warning">>),
          StreamResponse(<<"AnimeStream">>)}

\* handleStream behind findAllAnimeShowForSeason: without showId it returns
\* { streams: [] }; with a showId it goes on to the episode checks and the
\* sources, which end in a warning entry, in streams, or in none
HandleStreamResponses(showId) ==
    IF ~TruthyStr(showId)
    THEN {StreamResponse(<<>>)}
    ELSE {StreamResponse(<<>>),
          StreamResponse(<<"warning">>),
          StreamResponse(<<"AnimeStream">>)}

\* handleStream from the return of findAllAnimeShowForSeason on
HandleStream ==
    /\ resPc = "done"
    /\ streamResponse = None
    /\ \E response \in HandleStreamResponses(resResult) :
          streamResponse' = <<response>>
    /\ UNCHANGED <<resTitle, resSeason, resImdbId, resMalId, resAniListId,
                   resPc, resQueue, resSearches, resHits, resAccepted,
                   resStage, resResult>>
    /\ UNCHANGED <<absVars, parseVars, fileVars, simVars, normVars, scrVars, rateVars, adVars, catVars, tsVars, hsVars, dcVars>>

-----------------------------------------------------------------------------
(* Title normalization of the database builder: normalizeTitle *)

\* String.prototype.replace with a regular expression with the g flag, from
\* position start on; r is the match attempt at start
RECURSIVE ReplaceFrom(_, _, _, _, _)
ReplaceStep(reg, s, start, repl, ci, r) ==
    IF r # <<>> /\ r[1].pos > start
    THEN repl \o ReplaceFrom(reg, s, r[1].pos, repl, ci)
    ELSE (IF r # <<>> THEN repl ELSE "")
         \o (IF start <= Len(s) THEN Ch(s, start) ELSE "")
         \o ReplaceFrom(reg, s, start + 1, repl, ci)

ReplaceFrom(reg, s, start, repl, ci) ==
    IF start > Len(s) + 1 THEN ""
    ELSE ReplaceStep(reg, s, start, repl, ci,
                     M(reg, s, [pos |-> start, caps |-> NoCaps], ci))

ReplaceAll(reg, s, repl, ci) == ReplaceFrom(reg, s, 1, repl, ci)

\* Characters outside ASCII, written with ASCII characters as above: the
\* fullwidth colon (one of the marks that become a space), the combining
\* acute accent U+0301, and the kana GA, which NFD decomposes into KA and the
\* combining voiced sound mark U+3099.
FullwidthColon == "|"
CombiningAcute == "="
KanaGa == "&"
KanaKa == "%"
VoicedMark == "#"

\* the characters of the ranges U+3040-309F, U+30A0-30FF and U+4E00-9FAF
KanaCjkChars == {KanaGa, KanaKa, VoicedMark, CjkQuan, CjkHua, CjkDai, CjkWa, CjkKai}

\* String.prototype.normalize('NFD')
RECURSIVE NFD(_)
NFD(s) ==
    IF s = "" THEN ""
    ELSE (IF Ch(s, 1) = KanaGa THEN KanaKa \o VoicedMark ELSE Ch(s, 1))
         \o NFD(SubSeq(s, 2, Len(s)))

Words(strs) == Alt([i \in 1..Len(strs) |-> Lit(strs[i])])

\* the replacements of normalizeTitle before normalize('NFD')
NormalizeHead == <<
    [reg |-> Cat(<<Lit("("), Star(NotSet({")"})), Lit(")")>>),
     repl |-> "", ci |-> FALSE],
    [reg |-> Cat(<<Lit("["), Star(NotSet({"]"})), Lit("]")>>),
     repl |-> "", ci |-> FALSE],
    [reg |-> Set({FullwidthColon}), repl |-> " ", ci |-> FALSE],
    [reg |-> NotSet(WordChars \cup SpaceChars \cup KanaCjkChars \cup {"-"}),
     repl |-> "", ci |-> FALSE] >>

\* the replacements of normalizeTitle behind normalize('NFD')
NormalizeTail == <<
    [reg |-> Set({CombiningAcute}), repl |-> "", ci |-> FALSE],
    [reg |-> Lit("ou"), repl |-> "o", ci |-> FALSE],
    [reg |-> Lit("uu"), repl |-> "u", ci |-> FALSE],
    [reg |-> Lit("aa"), repl |-> "a", ci |-> FALSE],
    [reg |-> Lit("ii"), repl |-> "i", ci |-> FALSE],
    [reg |-> Lit("ee"), repl |-> "e", ci |-> FALSE],
    [reg |-> Cat(<<Plus(Ws), Opt(Cat(<<Lit("the"), Plus(Ws)>>)),
                   Words(<<"animation", "animated", "anime", "ova", "ona",
                           "movie", "film", "special", "tv", "series">>),
                   Opt(Lit("s")), Eos>>),
     repl |-> "", ci |-> TRUE],
    [reg |-> Cat(<<Plus(Ws),
                   Words(<<"season", "part", "cour", "chapter", "arc">>),
                   Star(Ws), Star(Set(Digits)), Eos>>),
     repl |-> "", ci |-> TRUE],
    [reg |-> Cat(<<Plus(Ws),
                   Alt(<<Lit("1st"), Lit("2nd"), Lit("3rd"),
                         Cat(<<Plus(Set(Digits)), Lit("th")>>)>>),
                   Plus(Ws), Words(<<"season", "part", "cour">>), Eos>>),
     repl |-> "", ci |-> TRUE],
    [reg |-> Cat(<<Plus(Ws), Plus(Set({"i", "v", "x"})), Eos>>),
     repl |-> "", ci |-> TRUE],
    [reg |-> Cat(<<Star(Ws), Lit("s"), Plus(Set(Digits)), Star(Ws)>>),
     repl |-> " ", ci |-> TRUE],
    [reg |-> Cat(<<Star(Ws), Lit("ep"), Opt(Lit(".")), Star(Ws),
                   Plus(Set(Digits))>>),
     repl |-> "", ci |-> TRUE],
    [reg |-> Cat(<<WordB, Lit("and"), WordB>>), repl |-> "", ci |-> FALSE],
    [reg |-> Cat(<<WordB, Lit("the"), WordB>>), repl |-> "", ci |-> FALSE],
    [reg |-> Cat(<<WordB, Lit("a"), WordB>>), repl |-> "", ci |-> FALSE],
    [reg |-> Plus(Ws), repl |-> " ", ci |-> FALSE],
    [reg |-> Plus(Lit("-")), repl |-> " ", ci |-> FALSE] >>

\* the chain of replace calls steps[i], steps[i + 1], ... on s; none of the
\* replacements changes the empty string
RECURSIVE ReplaceChain(_, _, _)
ReplaceChain(steps, i, s) ==
    IF i > Len(steps) \/ s = "" THEN s
    ELSE ReplaceChain(steps, i + 1,
                      ReplaceAll(steps[i].reg, s, steps[i].repl, steps[i].ci))

normalizeTitle(title) ==
    IF ~TruthyStr(title) THEN ""
    ELSE Trim(ReplaceChain(NormalizeTail, 1,
                NFD(ReplaceChain(NormalizeHead, 1, Trim(ToLowerCase(title))))))

\* Titles of catalog entries: concatenations of fragments, two titles of
\* seasons in parts, and two titles with characters outside ASCII
NormParts == {
    "Attack on Titan", " Final", " Season 2", " Part 2", " (TV)", " Movie",
    " II", "Baaad", " the", "-", " S2 ", " [BD]" }

\* largest number of fragments in a title to normalize
MaxNormParts == 2

RECURSIVE NormTitlesOf(_)
NormTitlesOf(n) ==
    IF n = 0 THEN {""}
    ELSE NormTitlesOf(n - 1) \cup {t \o p : t \in NormTitlesOf(n - 1), p \in NormParts}

NormTitles ==
    NormTitlesOf(MaxNormParts)
    \cup {"Attack on Titan Season 3 Part 2",
          "Shingeki no Kyojin: The Final Season Part 2",
          "Pok" \o CombiningAcute \o "emon",
          KanaGa \o "nma 1" \o FullwidthColon \o "2"}

\* normalizeTitle(title), and normalizeTitle of its result
NormalizeTitle ==
    /\ normPc = "start"
    /\ normOnce' = normalizeTitle(normTitle)
    /\ normTwice' = normalizeTitle(normOnce')
    /\ normPc' = "done"
    /\ UNCHANGED normTitle
    /\ UNCHANGED <<absVars, parseVars, fileVars, resVars, simVars, scrVars, rateVars, adVars, catVars, tsVars, hsVars, dcVars>>

-----------------------------------------------------------------------------
(* Scrobbling: scrobbleToAnilist, scrobbleToMal *)

\* a list entry of the user on AniList or MyAnimeList
ListEntry(status, progress) == [status |-> status, progress |-> progress]

\* the results of a scrobble
Skipped(service, reason) ==
    [service |-> service, kind |-> "skipped", reason |-> reason,
     isMovie |-> FALSE, previousProgress |-> NoNum, newProgress |-> NoNum,
     status |-> Null]
Success(service, isMovie, previousProgress, newProgress, status) ==
    [service |-> service, kind |-> "success", reason |-> Null,
     isMovie |-> isMovie, previousProgress |-> previousProgress,
     newProgress |-> newProgress, status |-> status]
Thrown(service, reason) ==
    [service |-> service, kind |-> "error", reason |-> reason,
     isMovie |-> FALSE, previousProgress |-> NoNum, newProgress |-> NoNum,
     status |-> Null]

\* mediaInfo.episodes || 9999, animeInfo.num_episodes || 9999
TotalEpisodes(episodes) == IF TruthyNum(episodes) THEN episodes ELSE 9999

\* ?.status and ?.progress || 0 of the entry
StatusOf(entry) == IF entry = None THEN Null ELSE entry[1].status
ProgressOf(entry) ==
    IF entry # None /\ TruthyNum(entry[1].progress) THEN entry[1].progress ELSE 0

\* scrobbleToAnilist behind getAnilistProgress: the result, with the status
\* and progress it has sent to syncAnilistProgress when it is a success
scrobbleToAnilist(currentEntry, episode, episodes, finished) ==
    LET totalEpisodes == TotalEpisodes(episodes)
        currentStatus == StatusOf(currentEntry)
        currentProgress == ProgressOf(currentEntry)
        completes == episode >= totalEpisodes /\ finished
        newStatus ==
            IF completes THEN "COMPLETED"
            ELSE IF ~TruthyStr(currentStatus) THEN "CURRENT"
            ELSE IF currentStatus \in {"PAUSED", "DROPPED", "PLANNING"}
            THEN "CURRENT"
            ELSE currentStatus
        newProgress == IF completes THEN totalEpisodes ELSE episode
    IN  IF currentStatus = "COMPLETED"
        THEN Skipped("anilist", "Already completed")
        ELSE IF newProgress <= currentProgress /\ newStatus = currentStatus
        THEN Skipped("anilist", "Episode already watched")
        ELSE Success("anilist", FALSE, currentProgress, newProgress, newStatus)

\* scrobbleToMal behind getMalAnimeStatus, likewise with updateMalStatus
scrobbleToMal(listStatus, episode, numEpisodes, finished, isMovie) ==
    LET totalEpisodes == TotalEpisodes(numEpisodes)
        currentStatus == StatusOf(listStatus)
        currentProgress == ProgressOf(listStatus)
        completes == episode >= totalEpisodes /\ finished
        newStatus ==
            IF completes THEN "completed"
            ELSE IF ~TruthyStr(currentStatus) THEN "watching"
            ELSE IF currentStatus \in {"on_hold", "plan_to_watch", "dropped"}
            THEN "watching"
            ELSE currentStatus
        newProgress == IF completes THEN totalEpisodes ELSE episode
    IN  IF isMovie
        THEN Success("mal", TRUE, NoNum, 1, "completed")
        ELSE IF currentStatus = "completed"
        THEN Skipped("mal", "Already completed")
        ELSE IF newProgress <= currentProgress /\ newStatus = currentStatus
        THEN Skipped("mal", "Episode already watched")
        ELSE Success("mal", FALSE, currentProgress, newProgress, newStatus)

\* the statuses of an entry on AniList and on MyAnimeList
AnilistStatuses ==
    {"CURRENT", "PLANNING", "COMPLETED", "REPEATING", "PAUSED", "DROPPED"}
MalStatuses == {"watching", "completed", "on_hold", "dropped", "plan_to_watch"}

\* largest episode number of a scrobble and of the progress of an entry
MaxScrobbleEpisode == 3

\* the episode counts of the anime on the services: unknown (null), or 2
MediaEpisodeCounts == {NoNum, 2}

\* the entry of the user: none, or a status with a progress
EntriesOf(statuses) ==
    {None} \cup {<<ListEntry(s, p)>> : s \in statuses, p \in 0..MaxScrobbleEpisode}

\* the entry after a scrobble with the result
EntryAfter(entry, result) ==
    IF result.kind = "success"
    THEN <<ListEntry(result.status, result.newProgress)>>
    ELSE entry

\* scrobbleToAnilist(anilistId, episode, accessToken): the fetch of the
\* entry fails (it throws) or the scrobble runs and AniList saves the update
ScrobbleToAnilist ==
    /\ scrPc = "ready"
    /\ \E episode \in 1..MaxScrobbleEpisode, fetched \in BOOLEAN :
          /\ scrResult' =
                IF fetched
                THEN <<scrobbleToAnilist(anilistEntry, episode, mediaEpisodes,
                                         mediaFinished)>>
                ELSE <<Thrown("anilist", "Could not fetch anime info from AniList")>>
          /\ scrEpisode' = episode
    /\ anilistEntry' = EntryAfter(anilistEntry, scrResult'[1])
    /\ UNCHANGED <<malEntry, mediaEpisodes, mediaFinished, scrPc>>
    /\ UNCHANGED <<absVars, parseVars, fileVars, resVars, simVars, normVars, rateVars, adVars, catVars, tsVars, hsVars, dcVars>>

\* scrobbleToMal(malId, episode, accessToken, isMovie)
ScrobbleToMal ==
    /\ scrPc = "ready"
    /\ \E episode \in 1..MaxScrobbleEpisode, fetched \in BOOLEAN,
          isMovie \in BOOLEAN :
          /\ scrResult' =
                IF fetched
                THEN <<scrobbleToMal(malEntry, episode, mediaEpisodes,
                                     mediaFinished, isMovie)>>
                ELSE <<Thrown("mal", "Could not fetch anime info from MAL")>>
          /\ scrEpisode' = episode
    /\ malEntry' = EntryAfter(malEntry, scrResult'[1])
    /\ UNCHANGED <<anilistEntry, mediaEpisodes, mediaFinished, scrPc>>
    /\ UNCHANGED <<absVars, parseVars, fileVars, resVars, simVars, normVars, rateVars, adVars, catVars, tsVars, hsVars, dcVars>>

-----------------------------------------------------------------------------
(* Rate limiting: checkRateLimit *)

\* the window of the limiter in milliseconds and the requests it allows
RATE_LIMIT_WINDOW == 60000
RATE_LIMIT_MAX_REQUESTS == 120

\* the client addresses of the requests (CF-Connecting-IP)
ClientIPs == {"203.0.113.7"}

\* the steps of the clock (Date.now()) between two requests: one millisecond
\* less than the window, and the window
ClockSteps == {RATE_LIMIT_WINDOW - 1, RATE_LIMIT_WINDOW}

\* number of steps of the clock
MaxClockSteps == 2

\* number of requests above the limit that a client sends in one window
MaxOverLimit == 2

\* Math.ceil(ms / 1000) for ms >= 0
CeilSeconds(ms) == (ms + 999) \div 1000

\* the results of checkRateLimit
RateAllowed(remaining) ==
    [allowed |-> TRUE, remaining |-> remaining, retryAfter |-> NoNum]
RateDenied(retryAfter) ==
    [allowed |-> FALSE, remaining |-> 0, retryAfter |-> retryAfter]

\* !entry || now - entry.windowStart > RATE_LIMIT_WINDOW
NewWindow(entry, now) ==
    entry = None \/ now - entry[1].windowStart > RATE_LIMIT_WINDOW

\* entry.count > RATE_LIMIT_MAX_REQUESTS
OverLimit(count) == count > RATE_LIMIT_MAX_REQUESTS

\* the entry of the address after checkRateLimit(ip) at the time now
EntryAfterCheck(entry, now) ==
    IF NewWindow(entry, now)
    THEN <<[windowStart |-> now, count |-> 1]>>
    ELSE <<[windowStart |-> entry[1].windowStart, count |-> entry[1].count + 1]>>

\* checkRateLimit(ip): its result for the entry of the address
checkRateLimit(entry, now) ==
    IF NewWindow(entry, now)
    THEN RateAllowed(RATE_LIMIT_MAX_REQUESTS - 1)
    ELSE IF OverLimit(entry[1].count + 1)
    THEN RateDenied(CeilSeconds(entry[1].windowStart + RATE_LIMIT_WINDOW - now))
    ELSE RateAllowed(RATE_LIMIT_MAX_REQUESTS - (entry[1].count + 1))

\* the allowed requests of the log that are younger than the window at now
RECURSIVE RecentAllowed(_, _)
RecentAllowed(log, now) ==
    IF log = <<>> THEN <<>>
    ELSE IF now - Head(log).at < RATE_LIMIT_WINDOW
    THEN log
    ELSE RecentAllowed(Tail(log), now)

\* the log with one more allowed request of now
LogAllowed(log, now) ==
    IF log # <<>> /\ log[Len(log)].at = now
    THEN [log EXCEPT ![Len(log)].count = @ + 1]
    ELSE Append(log, [at |-> now, count |-> 1])

\* fetch of a rate-limited path by the client ip: checkRateLimit(clientIP).
\* The cleanup of the entries older than the window (rateLimitMap.size above
\* MAX_RATE_LIMIT_ENTRIES) removes only entries that open a new window anyway.
CheckRateLimit ==
    /\ ratePc = "ready"
    /\ \E ip \in ClientIPs :
          /\ IF NewWindow(rateLimitMap[ip], rateNow) THEN TRUE
             ELSE rateLimitMap[ip][1].count < RATE_LIMIT_MAX_REQUESTS + MaxOverLimit
          /\ rateCheck' = <<checkRateLimit(rateLimitMap[ip], rateNow)>>
          /\ rateLimitMap' =
                [rateLimitMap EXCEPT ![ip] = EntryAfterCheck(@, rateNow)]
          /\ rateIp' = ip
    /\ allowedLog' =
          IF rateCheck'[1].allowed
          THEN LogAllowed(RecentAllowed(allowedLog, rateNow), rateNow)
          ELSE RecentAllowed(allowedLog, rateNow)
    /\ UNCHANGED <<rateNow, rateSteps, ratePc>>
    /\ UNCHANGED <<absVars, parseVars, fileVars, resVars, simVars, normVars, scrVars, adVars, catVars, tsVars, hsVars, dcVars>>

\* time passes between two requests
ClockStep ==
    /\ ratePc = "ready"
    /\ rateSteps < MaxClockSteps
    /\ \E step \in ClockSteps : rateNow' = rateNow + step
    /\ rateSteps' = rateSteps + 1
    /\ allowedLog' = RecentAllowed(allowedLog, rateNow')
    /\ UNCHANGED <<rateLimitMap, rateCheck, rateIp, ratePc>>
    /\ UNCHANGED <<absVars, parseVars, fileVars, resVars, simVars, normVars, scrVars, adVars, catVars, tsVars, hsVars, dcVars>>

-----------------------------------------------------------------------------
(* AllDebrid resolution: resolveAllDebrid *)

\* const maxAttempts = 30
maxAttempts == 30

\* what resolveAllDebrid returns: the unlocked link or null of
\* getAllDebridFiles, { status: 'error' }, { status: 'downloading' }, or the
\* null of its catch block
AdLink(link) == [kind |-> "link", link |-> link]
AdNull == [kind |-> "null", link |-> Null]
AdError == [kind |-> "error", link |-> Null]
AdDownloading == [kind |-> "downloading", link |-> Null]

\* what getAllDebridFiles returns: unlockData.data?.link || null, null when
\* it has caught an error
AdFilesResults == {AdLink("https://alldebrid.example/f/1"), AdNull}

\* the answers to the upload of the magnet: the request fails or the answer
\* carries an error (all of them throw), the magnet is ready, or it is not
UploadAnswers == {"throws", "ready", "queued"}

\* the answers to one request of /v4.1/magnet/status: the request or the body
\* throws, status 'error', or the statusCode of the magnet (undefined when the
\* answer carries no magnet)
StatusCodes == {NoNum, 0, 1, 2, 3, 4, 5, 7}
AdPoll(kind, code) == [kind |-> kind, code |-> code]
PollAnswers ==
    {AdPoll("throws", NoNum), AdPoll("api_error", NoNum)}
    \cup {AdPoll("status", c) : c \in StatusCodes}

\* while (attempts < maxAttempts); the variant polls once more
MorePolls_offByOne(attempts) == attempts <= maxAttempts
MorePolls(attempts) == attempts < maxAttempts

\* one pass of the loop for the answer of the status request: the value it
\* returns, or None when the loop goes on
PollReturns(poll, files) ==
    IF poll.kind = "throws" THEN <<AdNull>>
    ELSE IF poll.kind = "api_error" THEN None
    ELSE IF poll.code = 4 THEN <<files>>
    ELSE IF poll.code # NoNum /\ poll.code >= 5 THEN <<AdError>>
    ELSE None

\* resolveAllDebrid up to the upload of the magnet
UploadMagnet ==
    /\ adPc = "upload"
    /\ \E answer \in UploadAnswers, files \in AdFilesResults :
          /\ adResult' =
                IF answer = "throws" THEN <<AdNull>>
                ELSE IF answer = "ready" THEN <<files>>
                ELSE None
          /\ adPc' = IF answer = "queued" /\ MorePolls(0) THEN "poll" ELSE "done"
    /\ adAttempts' = 0
    /\ UNCHANGED <<adPolls, adLastPoll>>
    /\ UNCHANGED <<absVars, parseVars, fileVars, resVars, simVars, normVars, scrVars, rateVars, catVars, tsVars, hsVars, dcVars>>

\* one pass of the polling loop: attempts++, the status request, the return
\* for its answer or, when the loop is over, the return after the loop
PollStatus ==
    /\ adPc = "poll"
    /\ \E poll \in PollAnswers, files \in AdFilesResults :
          LET returned == PollReturns(poll, files)
          IN  /\ adLastPoll' = <<poll>>
              /\ adResult' =
                    IF returned # None THEN returned
                    ELSE IF MorePolls(adAttempts + 1) THEN None
                    ELSE <<AdDownloading>>
    /\ adAttempts' = adAttempts + 1
    /\ adPolls' = adPolls + 1
    /\ adPc' = IF adResult' = None THEN "poll" ELSE "done"
    /\ UNCHANGED <<absVars, parseVars, fileVars, resVars, simVars, normVars, scrVars, rateVars, catVars, tsVars, hsVars, dcVars>>

-----------------------------------------------------------------------------
(* Catalog cache: fetchCatalogData *)

\* the lifetime of the cached catalog in seconds
CACHE_TTL == 21600

\* the requests that are served at the same time by one worker instance
Callers == {1, 2}

\* number of refreshes from GitHub and of steps of the clock
MaxRefreshes == 3
MaxCatalogSteps == 2

\* the steps of the clock (milliseconds): up to the end of the lifetime
CatalogClockSteps == {1, CACHE_TTL * 1000 - 1}

\* what a call of fetchCatalogData gives back: { catalog, filterOptions }, or
\* the error that it throws
ReturnedPair(catalog, filterOptions) ==
    [kind |-> "returned", catalog |-> catalog, filterOptions |-> filterOptions]
ThrownError == [kind |-> "thrown", catalog |-> NoNum, filterOptions |-> NoNum]

\* a call: where it stands, its `now`, the refresh it fetches (catalog.json
\* and filter-options.json are known by the number of the refresh that
\* fetched them; both documents are objects, hence truthy), how it ended and
\* its result
CatalogCall(pc, now, refresh, ending, result) ==
    [pc |-> pc, now |-> now, refresh |-> refresh, ending |-> ending,
     result |-> result]
NoCall == CatalogCall("idle", 0, NoNum, Null, None)

\* catalogCache && filterOptionsCache
BothCached(catalog, filterOptions) == catalog # NoNum /\ filterOptions # NoNum

\* catalogCache && filterOptionsCache && (now - cacheTimestamp) < CACHE_TTL * 1000
CacheFresh(catalog, filterOptions, timestamp, now) ==
    BothCached(catalog, filterOptions) /\ (now - timestamp) < CACHE_TTL * 1000

\* the catch block: the cached data even if expired; the variant always throws
CatchResult_rethrow(catalog, filterOptions) == ThrownError
CatchResult(catalog, filterOptions) ==
    IF BothCached(catalog, filterOptions)
    THEN ReturnedPair(catalog, filterOptions)
    ELSE ThrownError

\* the call after it has entered the catch block with the caches as they are
Caught(call, ending, catalog, filterOptions) ==
    CatalogCall("done", call.now, call.refresh, ending,
                <<CatchResult(catalog, filterOptions)>>)

\* fetchCatalogData() up to its first await: the fresh cache is returned, or
\* the two requests are sent
FetchCatalogData ==
    /\ catPc = "ready"
    /\ \E c \in Callers :
          /\ catCalls[c].pc \in {"idle", "done"}
          /\ IF CacheFresh(catalogCache, filterOptionsCache, cacheTimestamp,
                           catClock)
             THEN /\ catCalls' =
                        [catCalls EXCEPT ![c] =
                            CatalogCall("done", catClock, NoNum, "fresh",
                                <<ReturnedPair(catalogCache, filterOptionsCache)>>)]
                  /\ UNCHANGED catRefreshes
             ELSE /\ catRefreshes < MaxRefreshes
                  /\ catRefreshes' = catRefreshes + 1
                  /\ catCalls' =
                        [catCalls EXCEPT ![c] =
                            CatalogCall("fetching", catClock, catRefreshes',
                                        Null, None)]
    /\ UNCHANGED <<catalogCache, filterOptionsCache, cacheTimestamp, catLoaded,
                   catClock, catSteps, catPc>>
    /\ UNCHANGED <<absVars, parseVars, fileVars, resVars, simVars, normVars, scrVars, rateVars, adVars, tsVars, hsVars, dcVars>>

\* await Promise.all([fetch, fetch]) and the test of the two responses: a
\* request fails, a response is not OK, or both are OK
ResponsesArrive ==
    /\ catPc = "ready"
    /\ \E c \in Callers, answer \in {"network_error", "not_ok", "ok"} :
          /\ catCalls[c].pc = "fetching"
          /\ catCalls' =
                [catCalls EXCEPT ![c] =
                    IF answer = "ok"
                    THEN [@ EXCEPT !.pc = "catalogJson"]
                    ELSE Caught(@, answer, catalogCache, filterOptionsCache)]
    /\ UNCHANGED <<catalogCache, filterOptionsCache, cacheTimestamp, catLoaded,
                   catRefreshes, catClock, catSteps, catPc>>
    /\ UNCHANGED <<absVars, parseVars, fileVars, resVars, simVars, normVars, scrVars, rateVars, adVars, tsVars, hsVars, dcVars>>

\* await catalogRes.json() and catalogCache = catalogData.catalog || catalogData
CatalogJson ==
    /\ catPc = "ready"
    /\ \E c \in Callers, parsed \in BOOLEAN :
          /\ catCalls[c].pc = "catalogJson"
          /\ catalogCache' = IF parsed THEN catCalls[c].refresh ELSE catalogCache
          /\ catCalls' =
                [catCalls EXCEPT ![c] =
                    IF parsed
                    THEN [@ EXCEPT !.pc = "filterJson"]
                    ELSE Caught(@, "catalog_json", catalogCache,
                                filterOptionsCache)]
    /\ UNCHANGED <<filterOptionsCache, cacheTimestamp, catLoaded, catRefreshes,
                   catClock, catSteps, catPc>>
    /\ UNCHANGED <<absVars, parseVars, fileVars, resVars, simVars, normVars, scrVars, rateVars, adVars, tsVars, hsVars, dcVars>>

\* filterOptionsCache = await filterRes.json(), cacheTimestamp = now and the
\* return of the pair
FilterJson ==
    /\ catPc = "ready"
    /\ \E c \in Callers, parsed \in BOOLEAN :
          /\ catCalls[c].pc = "filterJson"
          /\ filterOptionsCache' =
                IF parsed THEN catCalls[c].refresh ELSE filterOptionsCache
          /\ cacheTimestamp' = IF parsed THEN catCalls[c].now ELSE cacheTimestamp
          /\ catLoaded' =
                IF parsed
                THEN catLoaded \cup {<<catCalls[c].refresh, catCalls[c].now>>}
                ELSE catLoaded
          /\ catCalls' =
                [catCalls EXCEPT ![c] =
                    IF parsed
                    THEN CatalogCall("done", @.now, @.refresh, "loaded",
                            <<ReturnedPair(catalogCache, filterOptionsCache')>>)
                    ELSE Caught(@, "filter_json", catalogCache,
                                filterOptionsCache)]
    /\ UNCHANGED <<catalogCache, catRefreshes, catClock, catSteps, catPc>>
    /\ UNCHANGED <<absVars, parseVars, fileVars, resVars, simVars, normVars, scrVars, rateVars, adVars, tsVars, hsVars, dcVars>>

\* time passes (Date.now())
CatalogClockStep ==
    /\ catPc = "ready"
    /\ catSteps < MaxCatalogSteps
    /\ \E step \in CatalogClockSteps : catClock' = catClock + step
    /\ catSteps' = catSteps + 1
    /\ UNCHANGED <<catalogCache, filterOptionsCache, cacheTimestamp, catLoaded,
                   catCalls, catRefreshes, catPc>>
    /\ UNCHANGED <<absVars, parseVars, fileVars, resVars, simVars, normVars, scrVars, rateVars, adVars, tsVars, hsVars, dcVars>>

-----------------------------------------------------------------------------
(* Torrent search: getTorrentStreams *)

\* String.prototype.toUpperCase
UpperChar(c) ==
    IF c \in LowerLetters
    THEN Ch(UpperStr, CHOOSE i \in 1..26 : Ch(LowerStr, i) = c)
    ELSE c
RECURSIVE ToUpperCase(_)
ToUpperCase(s) ==
    IF s = "" THEN "" ELSE UpperChar(Ch(s, 1)) \o ToUpperCase(SubSeq(s, 2, Len(s)))

\* a torrent as the three scrapers build it from an item of a feed: they all
\* store the info hash in upper case (the 40 hexadecimal digits of a hash are
\* shortened to 4 here)
Torrent(hash, provider, quality, isRaw, seeders) ==
    [infoHash |-> ToUpperCase(hash), provider |-> provider,
     quality |-> quality, isRaw |-> isRaw, seeders |-> seeders]

\* torrents of scrapeAnimeToshoByAniDbId, scrapeNyaa, scrapeAnimeTosho and of
\* scrapeNyaaWithSynonyms
AnidbTorrents == {
    Torrent("ab12", "AnimeTosho-AniDB", "1080p", FALSE, 10),
    Torrent("CD34", "AnimeTosho-AniDB", "720p", FALSE, 3) }
NyaaTorrents == {
    Torrent("AB12", "Nyaa", "720p", TRUE, 50),
    Torrent("cd34", "Nyaa", "1080p", FALSE, 5),
    Torrent("ef56", "Nyaa", "Unknown", FALSE, 0) }
ToshoTorrents == {
    Torrent("ab12", "AnimeTosho", "1080p", FALSE, 7),
    Torrent("ef56", "AnimeTosho", "720p", FALSE, 7),
    Torrent("0a9b", "AnimeTosho", "4K", TRUE, 1) }
SynonymResults == {
    <<>>,
    <<Torrent("ab12", "Nyaa", "720p", FALSE, 2)>>,
    <<Torrent("9f00", "Nyaa", "480p", TRUE, 4),
      Torrent("ab12", "Nyaa", "720p", FALSE, 2)>> }

\* number of torrents of one search
MaxTorrents == 2

\* the result lists of a scraper
TorrentLists(torrents) ==
    UNION {[1..n -> torrents] : n \in 0..MaxTorrents}

\* scrapeAnimeTosho skips a hash that it has already (torrents.find)
NoRepeat(list) ==
    \A i, j \in 1..Len(list) : i # j => list[i].infoHash # list[j].infoHash

\* the info hashes of a list
HashesOf(list) == {list[i].infoHash : i \in 1..Len(list)}

\* for (const torrent of list) if (!seen.has(torrent.infoHash)) { seen.add,
\* combined.push }: seen is the set of the hashes of combined.  The variant
\* pushes every torrent.
RECURSIVE AddUnseen(_, _)
AddUnseen_keepAll(combined, list) == combined \o list
AddUnseen(combined, list) ==
    IF list = <<>> THEN combined
    ELSE AddUnseen(IF Head(list).infoHash \in HashesOf(combined)
                   THEN combined
                   ELSE Append(combined, Head(list)),
                   Tail(list))

\* qualityOrder
QualityOrder(quality) ==
    CASE quality = "4K" -> 0
      [] quality = "1080p" -> 1
      [] quality = "720p" -> 2
      [] quality = "480p" -> 3
      [] quality = "Unknown" -> 4

\* a.provider?.includes('AniDB')
IsAnidbProvider(torrent) == Includes(torrent.provider, "AniDB")

\* the comparison of combined.sort: RAW first, then AniDB, quality, seeders
CompareTorrents(a, b) ==
    IF a.isRaw # b.isRaw THEN (IF a.isRaw THEN -1 ELSE 1)
    ELSE IF IsAnidbProvider(a) # IsAnidbProvider(b)
    THEN (IF IsAnidbProvider(a) THEN -1 ELSE 1)
    ELSE IF QualityOrder(a.quality) # QualityOrder(b.quality)
    THEN QualityOrder(a.quality) - QualityOrder(b.quality)
    ELSE b.seeders - a.seeders

\* Array.prototype.sort with the comparison: stable
RECURSIVE InsertTorrent(_, _)
InsertTorrent(sorted, x) ==
    IF sorted = <<>> THEN <<x>>
    ELSE IF CompareTorrents(x, Head(sorted)) < 0
         THEN <<x>> \o sorted
         ELSE <<Head(sorted)>> \o InsertTorrent(Tail(sorted), x)
RECURSIVE SortTorrents(_)
SortTorrents(seq) ==
    IF seq = <<>> THEN <<>>
    ELSE InsertTorrent(SortTorrents(SubSeq(seq, 1, Len(seq) - 1)), seq[Len(seq)])

\* getTorrentStreams with the results of the searches
getTorrentStreams(anidbId, anidbResults, nyaaResults, toshoResults, synonyms, synonymResults) ==
    LET byId == IF TruthyNum(anidbId) THEN anidbResults ELSE <<>>
        byTitle == AddUnseen(AddUnseen(<<>>, byId), nyaaResults \o toshoResults)
        combined == IF Len(byTitle) = 0 /\ synonyms > 0
                    THEN AddUnseen(byTitle, synonymResults)
                    ELSE byTitle
    IN  SortTorrents(combined)

\* getTorrentStreams(anime, episode, season)
GetTorrentStreams ==
    /\ tsPc = "start"
    /\ tsCombined' = getTorrentStreams(tsAnidbId, tsAnidb, tsNyaa, tsTosho,
                                       tsSynonyms, tsSynonymResults)
    /\ tsPc' = "done"
    /\ UNCHANGED <<tsAnidbId, tsAnidb, tsNyaa, tsTosho, tsSynonyms,
                   tsSynonymResults>>
    /\ UNCHANGED <<absVars, parseVars, fileVars, resVars, simVars, normVars, scrVars, rateVars, adVars, catVars, hsVars, dcVars>>

-----------------------------------------------------------------------------
(* Stream handler: the episode checks of handleStream *)

\* the base ids of a request: a series of the season table, a series without
\* mapping, and a MyAnimeList id
MalBaseId == "mal-58567"
StreamBaseIds == {"tt0388629", UnmappedImdbId, MalBaseId}
StreamSeasons == 1..2
StreamEpisodes == {1, 2, 9}

\* baseId.startsWith(prefix)
StartsWith(s, prefix) ==
    Len(s) >= Len(prefix) /\ SubSeq(s, 1, Len(prefix)) = prefix

\* baseId.replace('mal-', '')
MalIdOf(baseId) == SubSeq(baseId, 5, Len(baseId))

\* an entry of availableEpisodesDetail.sub / .dub: a number or a string
EpString(s) == [isString |-> TRUE, value |-> s]
EpNumber(n) == [isString |-> FALSE, value |-> n]

\* ep => typeof ep === 'string' ? parseInt(ep) : ep
EpisodeNumberOf(ep) == IF ep.isString THEN ParseInt(ep.value) ELSE ep.value

\* Math.max(...list) of a list that is not empty
RECURSIVE MaxOfList(_)
MaxOfList(list) ==
    IF Len(list) = 1 THEN EpisodeNumberOf(list[1])
    ELSE Max(EpisodeNumberOf(list[1]), MaxOfList(Tail(list)))

\* the lists of released episodes AllAnime answers with
EpisodeLists == {
    <<>>,
    <<EpString("2"), EpString("1")>>,
    <<EpNumber(1), EpNumber(8), EpNumber(2)>>,
    <<EpString("9")>> }

\* availableEpisodesDetail: an object whose sub and dub are lists or missing
EpisodesDetails ==
    {[sub |-> s, dub |-> d] :
        s \in {None} \cup {<<l>> : l \in EpisodeLists},
        d \in {None, <<<<EpString("1")>>>>}}

\* the planned episode counts of a show; 0 when AllAnime has none
EpisodeCounts == {0, 12}

\* the answers of getAllAnimeShowDetails: it throws, it returns null, or it
\* returns the show with or without availableEpisodesDetail
ShowDetails(episodeCount, detail) ==
    [throws |-> FALSE, show |-> <<[episodeCount |-> episodeCount,
                                   availableEpisodesDetail |-> detail]>>]
DetailsThrows == [throws |-> TRUE, show |-> None]
DetailsNull == [throws |-> FALSE, show |-> None]
DetailsAnswers ==
    {DetailsThrows, DetailsNull}
    \cup {ShowDetails(c, None) : c \in EpisodeCounts}
    \cup {ShowDetails(c, <<d>>) : c \in EpisodeCounts, d \in EpisodesDetails}

\* totalSeasonEpisodes = showDetails?.episodeCount || null
TotalOf(answer) ==
    IF answer.show = None \/ answer.show[1].episodeCount = 0 THEN NoNum
    ELSE answer.show[1].episodeCount

\* const available = detail.sub || detail.dub || []
AvailableList(detail) ==
    IF detail.sub # None THEN detail.sub[1]
    ELSE IF detail.dub # None THEN detail.dub[1]
    ELSE <<>>

\* availableEpisodes after the details: the largest released episode when
\* the list has entries, otherwise what it was
AvailableOf(answer, before) ==
    IF answer.show = None \/ answer.show[1].availableEpisodesDetail = None
    THEN before
    ELSE LET available == AvailableList(answer.show[1].availableEpisodesDetail[1])
         IN  IF Len(available) > 0 THEN MaxOfList(available) ELSE before

\* the one entry of the answer for an episode that is not released: the
\* warning sign of the title is written (!)
NotAvailableYet(absoluteEpisode, availableEpisodes) ==
    [name |-> "AnimeStream",
     title |-> "(!) Episode " \o NumToString(absoluteEpisode)
               \o " not available yet (" \o NumToString(availableEpisodes)
               \o " released)",
     externalUrl |-> "https://stremio.com"]

\* the bounds test on the episode of the request instead of the absolute one
ExceedsAvailable_seasonEpisode(availableEpisodes, absoluteEpisode, episode) ==
    TruthyNum(availableEpisodes) /\ episode > availableEpisodes

\* if (availableEpisodes && absoluteEpisode > availableEpisodes)
ExceedsAvailable(availableEpisodes, absoluteEpisode, episode) ==
    TruthyNum(availableEpisodes) /\ absoluteEpisode > availableEpisodes

\* the show ids findAllAnimeShowForSeason returns; null when none matches
FoundShowIds == {Null, "ReooPAxPMsHM4KPMY"}

\* the entries getEpisodeSources and the torrent search add to the answer
SourceStream == [name |-> "AnimeStream", title |-> "[SUB] SUB - HD",
                 externalUrl |-> Null]
TorrentStream == [name |-> "Torrent", title |-> "Requires Debrid",
                  externalUrl |-> "/configure"]
SourceAnswers == {"throws", "none", "one"}
TorrentAnswers == {"throws", "none", "one"}

\* handleStream up to `if (!anime) return { streams: [] }`: the catalog, then
\* Cinemeta and AniList; for a mal- id without any of them the details of the
\* show under the MAL id, which also give showId and the episode counts
FindAnime ==
    /\ hsPc = "start"
    /\ \E known \in BOOLEAN, answer \in DetailsAnswers :
          LET direct == /\ ~known
                        /\ StartsWith(hsBaseId, "mal-")
                        /\ ~answer.throws
                        /\ answer.show # None
              anime == known \/ direct
          IN  /\ hsAnime' = anime
              /\ hsShowId' = IF direct THEN MalIdOf(hsBaseId) ELSE Null
              /\ hsTotal' = IF direct THEN TotalOf(answer) ELSE NoNum
              /\ hsAvailable' = IF direct THEN AvailableOf(answer, NoNum)
                                ELSE NoNum
              /\ hsCalls' = IF ~known /\ StartsWith(hsBaseId, "mal-")
                            THEN <<"getAllAnimeShowDetails">> ELSE <<>>
              /\ hsResponse' = IF anime THEN None
                               ELSE <<StreamResponse(<<>>)>>
              /\ hsPc' = IF anime THEN "resolve" ELSE "done"
    /\ UNCHANGED <<hsBaseId, hsSeason, hsEpisode, hsAbsolute, hsStreams>>
    /\ UNCHANGED <<absVars, parseVars, fileVars, resVars, simVars, normVars, scrVars, rateVars, adVars, catVars, tsVars, dcVars>>

\* handleStream from `if (!showId)` to the second `if (!showId) return`:
\* findAllAnimeShowForSeason and, for a show, getAllAnimeShowDetails
ResolveShow ==
    /\ hsPc = "resolve"
    /\ \E found \in FoundShowIds, answer \in DetailsAnswers :
          LET search == ~TruthyStr(hsShowId)
              showId == IF search THEN found ELSE hsShowId
              details == search /\ TruthyStr(found)
              read == details /\ ~answer.throws
          IN  /\ hsShowId' = showId
              /\ hsTotal' = IF read THEN TotalOf(answer) ELSE hsTotal
              /\ hsAvailable' = IF read THEN AvailableOf(answer, hsAvailable)
                                ELSE hsAvailable
              /\ hsCalls' = hsCalls
                    \o (IF search THEN <<"findAllAnimeShowForSeason">> ELSE <<>>)
                    \o (IF details THEN <<"getAllAnimeShowDetails">> ELSE <<>>)
              /\ hsResponse' = IF TruthyStr(showId) THEN None
                               ELSE <<StreamResponse(<<>>)>>
              /\ hsPc' = IF TruthyStr(showId) THEN "bounds" ELSE "done"
    /\ UNCHANGED <<hsBaseId, hsSeason, hsEpisode, hsAnime, hsAbsolute,
                   hsStreams>>
    /\ UNCHANGED <<absVars, parseVars, fileVars, resVars, simVars, normVars, scrVars, rateVars, adVars, catVars, tsVars, dcVars>>

\* handleStream from the final check to the episode bounds validation;
\* shouldServeAllAnimeStream allows every request
CheckBounds ==
    /\ hsPc = "bounds"
    /\ LET absoluteEpisode == convertToAbsoluteEpisode(hsBaseId, hsSeason, hsEpisode)
           exceeds == ExceedsAvailable(hsAvailable, absoluteEpisode, hsEpisode)
       IN  /\ hsAbsolute' = absoluteEpisode
           /\ hsCalls' = Append(hsCalls, "convertToAbsoluteEpisode")
           /\ hsResponse' =
                 IF exceeds
                 THEN <<StreamResponse(<<NotAvailableYet(absoluteEpisode, hsAvailable)>>)>>
                 ELSE None
           /\ hsPc' = IF exceeds THEN "done" ELSE "sources"
    /\ UNCHANGED <<hsBaseId, hsSeason, hsEpisode, hsAnime, hsShowId, hsTotal,
                   hsAvailable, hsStreams>>
    /\ UNCHANGED <<absVars, parseVars, fileVars, resVars, simVars, normVars, scrVars, rateVars, adVars, catVars, tsVars, dcVars>>

\* handleStream: getEpisodeSources(showId, absoluteEpisode); an exception
\* ends the request with { streams: [] }
GetEpisodeSources ==
    /\ hsPc = "sources"
    /\ hsCalls' = Append(hsCalls, "getEpisodeSources")
    /\ \E answer \in SourceAnswers :
          /\ hsResponse' = IF answer = "throws" THEN <<StreamResponse(<<>>)>>
                           ELSE None
          /\ hsStreams' = IF answer = "one" THEN <<SourceStream>> ELSE <<>>
          /\ hsPc' = IF answer = "throws" THEN "done" ELSE "torrents"
    /\ UNCHANGED <<hsBaseId, hsSeason, hsEpisode, hsAnime, hsShowId, hsTotal,
                   hsAvailable, hsAbsolute>>
    /\ UNCHANGED <<absVars, parseVars, fileVars, resVars, simVars, normVars, scrVars, rateVars, adVars, catVars, tsVars, dcVars>>

\* handleStream: getTorrentStreams(enrichedAnime, absoluteEpisode, season),
\* whose exception is caught, and the answer with the entries collected
SearchTorrents ==
    /\ hsPc = "torrents"
    /\ hsCalls' = Append(hsCalls, "getTorrentStreams")
    /\ \E answer \in TorrentAnswers :
          /\ hsStreams' = hsStreams \o (IF answer = "one" THEN <<TorrentStream>>
                                        ELSE <<>>)
          /\ hsResponse' = <<StreamResponse(hsStreams')>>
    /\ hsPc' = "done"
    /\ UNCHANGED <<hsBaseId, hsSeason, hsEpisode, hsAnime, hsShowId, hsTotal,
                   hsAvailable, hsAbsolute>>
    /\ UNCHANGED <<absVars, parseVars, fileVars, resVars, simVars, normVars, scrVars, rateVars, adVars, catVars, tsVars, dcVars>>

-----------------------------------------------------------------------------
(* Debrid link cache: resolveDebrid behind /debrid/play *)

DEBRID_CACHE_TTL == 3600000
MAX_DEBRID_CACHE_SIZE == 200

\* the parameters of /debrid/play that reach resolveDebrid: p, ih, ep (null
\* when missing) and s (1 when missing)
DebridProviders == {"realdebrid", "alldebrid", "torbox"}
DebridHashes == {"AB12", "CD34"}
DebridEpisodes == {NoNum, 0, 5, 6}
DebridSeasons == 1..2
DebridRequest(provider, infoHash, episode, season) ==
    [provider |-> provider, infoHash |-> infoHash, episode |-> episode,
     season |-> season]
DebridRequests ==
    {DebridRequest(p, ih, ep, s) :
        p \in DebridProviders, ih \in DebridHashes, ep \in DebridEpisodes,
        s \in DebridSeasons}

\* number of requests, and of steps of the clock between them
MaxDebridRequests == 2
MaxDebridSteps == 2
DebridClockSteps == {1, DEBRID_CACHE_TTL - 1}

\* const cacheKey = debrid:${provider}:${infoHash}:${episode || 'all'}
CacheKey(provider, infoHash, episode) ==
    "debrid:" \o provider \o ":" \o infoHash \o ":"
    \o (IF TruthyNum(episode) THEN NumToString(episode) ELSE "all")

\* the direct link a provider unlocks for a request: the file it selects in
\* the torrent depends on the episode and on the season
DirectLink(request) ==
    "https://" \o request.provider \o ".example/" \o request.infoHash
    \o "/S" \o NumToString(request.season) \o "E"
    \o (IF request.episode = NoNum THEN "-" ELSE NumToString(request.episode))

\* what resolveRealDebrid and resolveAllDebrid return: the link, null, or a
\* status object; an unknown provider leaves result = null
ProviderResults(request) ==
    IF request.provider \in {"realdebrid", "alldebrid"}
    THEN {AdLink(DirectLink(request)), AdNull, AdDownloading}
    ELSE {AdNull}

\* debridCache.get(cacheKey) on the Map, kept as the list of its entries in
\* insertion order
CacheGet(cache, key) ==
    IF \E i \in 1..Len(cache) : cache[i].key = key
    THEN <<cache[CHOOSE i \in 1..Len(cache) : cache[i].key = key]>>
    ELSE None

\* cached && Date.now() - cached.timestamp < DEBRID_CACHE_TTL
\*        && typeof cached.data === 'string'
CacheHit(cached, now) ==
    /\ cached # None
    /\ now - cached[1].timestamp < DEBRID_CACHE_TTL
    /\ cached[1].data.kind = "link"

\* position of entry i in entries.sort((a, b) => a[1].timestamp - b[1].timestamp)
SortedPosition(cache, i) ==
    1 + Cardinality({j \in 1..Len(cache) :
                        \/ cache[j].timestamp < cache[i].timestamp
                        \/ cache[j].timestamp = cache[i].timestamp /\ j < i})

\* the keys of the oldest entries, removed when the cache has grown above
\* MAX_DEBRID_CACHE_SIZE
KeysToDelete(cache) ==
    IF Len(cache) > MAX_DEBRID_CACHE_SIZE
    THEN {cache[i].key : i \in {j \in 1..Len(cache) :
              SortedPosition(cache, j) <= MAX_DEBRID_CACHE_SIZE \div 2}}
    ELSE {}

RECURSIVE WithoutKeys(_, _)
WithoutKeys(cache, keys) ==
    IF cache = <<>> THEN <<>>
    ELSE (IF cache[1].key \in keys THEN <<>> ELSE <<cache[1]>>)
         \o WithoutKeys(Tail(cache), keys)

\* debridCache.set(cacheKey, { data, timestamp }): an entry of the key is
\* replaced where it is, a new one is added at the end
CacheSet(cache, key, data, now) ==
    IF \E i \in 1..Len(cache) : cache[i].key = key
    THEN [i \in 1..Len(cache) |->
             IF cache[i].key = key
             THEN [key |-> key, data |-> data, timestamp |-> now]
             ELSE cache[i]]
    ELSE Append(cache, [key |-> key, data |-> data, timestamp |-> now])

\* the requests whose resolutions stored the entries of the cache, by key
StoredBy(stored, key) == {s \in stored : s.key = key}

\* fetch of /debrid/play with ih, p and key: resolveDebrid(magnet, infoHash,
\* provider, apiKey, fileIndex, episode, season) as a whole
ResolveDebrid ==
    /\ dcPc = "ready"
    /\ dcCount < MaxDebridRequests
    /\ \E request \in DebridRequests :
          LET cacheKey == CacheKey(request.provider, request.infoHash,
                                   request.episode)
              cached == CacheGet(debridCache, cacheKey)
              deleted == KeysToDelete(debridCache)
              kept == WithoutKeys(debridCache, deleted)
          IN  /\ dcRequest' = <<request>>
              /\ IF CacheHit(cached, dcClock)
                 THEN /\ dcResult' = <<cached[1].data>>
                      /\ dcServed' = <<(CHOOSE s \in StoredBy(dcStoredBy, cacheKey) : TRUE).request>>
                      /\ UNCHANGED <<debridCache, dcStoredBy>>
                 ELSE \E result \in ProviderResults(request) :
                         /\ dcResult' = <<result>>
                         /\ dcServed' = None
                         /\ debridCache' =
                               IF result.kind = "link"
                               THEN CacheSet(kept, cacheKey, result, dcClock)
                               ELSE kept
                         /\ dcStoredBy' =
                               IF result.kind = "link"
                               THEN {s \in dcStoredBy : s.key \notin deleted \cup {cacheKey}}
                                    \cup {[key |-> cacheKey, request |-> request]}
                               ELSE {s \in dcStoredBy : s.key \notin deleted}
    /\ dcCount' = dcCount + 1
    /\ UNCHANGED <<dcClock, dcSteps, dcPc>>
    /\ UNCHANGED <<absVars, parseVars, fileVars, resVars, simVars, normVars, scrVars, rateVars, adVars, catVars, tsVars, hsVars>>

\* time passes between two requests
DebridClockStep ==
    /\ dcPc = "ready"
    /\ dcSteps < MaxDebridSteps
    /\ \E step \in DebridClockSteps : dcClock' = dcClock + step
    /\ dcSteps' = dcSteps + 1
    /\ UNCHANGED <<debridCache, dcStoredBy, dcRequest, dcResult, dcServed,
                   dcCount, dcPc>>
    /\ UNCHANGED <<absVars, parseVars, fileVars, resVars, simVars, normVars, scrVars, rateVars, adVars, catVars, tsVars, hsVars>>

-----------------------------------------------------------------------------
(* Specifications *)

\* a request for one episode of one season of a series; the other operations are idle
InitAbs ==
    /\ absImdbId \in ImdbIds
    /\ absSeason \in 0..MaxSeason
    /\ absEpisode \in 1..MaxEpisode
    /\ absResult = NoNum
    /\ absPc = "start"
    /\ parseTitle = ""
    /\ parseInfo = NoInfo
    /\ parsePc = "idle"
    /\ torrentFiles = <<>>
    /\ reqEpisode = NoNum
    /\ reqSeason = 1
    /\ fileIndex = 0
    /\ selectedFile = None
    /\ selPc = "idle"
    /\ resTitle = ""
    /\ resSeason = 1
    /\ resImdbId = Null
    /\ resMalId = NoNum
    /\ resAniListId = NoNum
    /\ resPc = "idle"
    /\ resQueue = <<>>
    /\ resSearches = <<>>
    /\ resHits = <<>>
    /\ resAccepted = None
    /\ resStage = Null
    /\ resResult = Null
    /\ streamResponse = None
    /\ valEpisode = NoNum
    /\ valSeason = 1
    /\ validation = None
    /\ filtered = <<>>
    /\ simA = ""
    /\ simB = ""
    /\ simScore = None
    /\ simSwapped = None
    /\ simPc = "idle"
    /\ normTitle = ""
    /\ normOnce = Null
    /\ normTwice = Null
    /\ normPc = "idle"
    /\ anilistEntry = None
    /\ malEntry = None
    /\ mediaEpisodes = NoNum
    /\ mediaFinished = FALSE
    /\ scrEpisode = NoNum
    /\ scrResult = None
    /\ scrPc = "idle"
    /\ rateNow = 0
    /\ rateLimitMap = [ip \in {} |-> None]
    /\ rateCheck = None
    /\ rateIp = Null
    /\ rateSteps = 0
    /\ allowedLog = <<>>
    /\ ratePc = "idle"
    /\ adPc = "idle"
    /\ adAttempts = 0
    /\ adPolls = 0
    /\ adLastPoll = None
    /\ adResult = None
    /\ catalogCache = NoNum
    /\ filterOptionsCache = NoNum
    /\ cacheTimestamp = 0
    /\ catCalls = <<>>
    /\ catRefreshes = 0
    /\ catLoaded = {}
    /\ catClock = 0
    /\ catSteps = 0
    /\ catPc = "idle"
    /\ tsAnidbId = NoNum
    /\ tsAnidb = <<>>
    /\ tsNyaa = <<>>
    /\ tsTosho = <<>>
    /\ tsSynonyms = 0
    /\ tsSynonymResults = <<>>
    /\ tsCombined = <<>>
    /\ tsPc = "idle"
    /\ hsBaseId = Null
    /\ hsSeason = 1
    /\ hsEpisode = 1
    /\ hsAnime = FALSE
    /\ hsShowId = Null
    /\ hsTotal = NoNum
    /\ hsAvailable = NoNum
    /\ hsAbsolute = NoNum
    /\ hsCalls = <<>>
    /\ hsResponse = None
    /\ hsPc = "idle"
    /\ debridCache = <<>>
    /\ dcRequest = None
    /\ dcResult = None
    /\ dcServed = None
    /\ dcClock = 0
    /\ dcCount = 0
    /\ dcPc = "idle"
    /\ hsStreams = <<>>
    /\ dcStoredBy = {}
    /\ dcSteps = 0

NextAbs == ConvertToAbsoluteEpisode
SpecAbs == InitAbs /\ [][NextAbs]_vars

\* one torrent title to parse; the other operations are idle
InitParse ==
    /\ absImdbId = Null
    /\ absSeason = 0
    /\ absEpisode = 0
    /\ absResult = NoNum
    /\ absPc = "idle"
    /\ parseTitle \in Titles
    /\ parseInfo = NoInfo
    /\ parsePc = "start"
    /\ torrentFiles = <<>>
    /\ reqEpisode = NoNum
    /\ reqSeason = 1
    /\ fileIndex = 0
    /\ selectedFile = None
    /\ selPc = "idle"
    /\ resTitle = ""
    /\ resSeason = 1
    /\ resImdbId = Null
    /\ resMalId = NoNum
    /\ resAniListId = NoNum
    /\ resPc = "idle"
    /\ resQueue = <<>>
    /\ resSearches = <<>>
    /\ resHits = <<>>
    /\ resAccepted = None
    /\ resStage = Null
    /\ resResult = Null
    /\ streamResponse = None
    /\ valEpisode = NoNum
    /\ valSeason = 1
    /\ validation = None
    /\ filtered = <<>>
    /\ simA = ""
    /\ simB = ""
    /\ simScore = None
    /\ simSwapped = None
    /\ simPc = "idle"
    /\ normTitle = ""
    /\ normOnce = Null
    /\ normTwice = Null
    /\ normPc = "idle"
    /\ anilistEntry = None
    /\ malEntry = None
    /\ mediaEpisodes = NoNum
    /\ mediaFinished = FALSE
    /\ scrEpisode = NoNum
    /\ scrResult = None
    /\ scrPc = "idle"
    /\ rateNow = 0
    /\ rateLimitMap = [ip \in {} |-> None]
    /\ rateCheck = None
    /\ rateIp = Null
    /\ rateSteps = 0
    /\ allowedLog = <<>>
    /\ ratePc = "idle"
    /\ adPc = "idle"
    /\ adAttempts = 0
    /\ adPolls = 0
    /\ adLastPoll = None
    /\ adResult = None
    /\ catalogCache = NoNum
    /\ filterOptionsCache = NoNum
    /\ cacheTimestamp = 0
    /\ catCalls = <<>>
    /\ catRefreshes = 0
    /\ catLoaded = {}
    /\ catClock = 0
    /\ catSteps = 0
    /\ catPc = "idle"
    /\ tsAnidbId = NoNum
    /\ tsAnidb = <<>>
    /\ tsNyaa = <<>>
    /\ tsTosho = <<>>
    /\ tsSynonyms = 0
    /\ tsSynonymResults = <<>>
    /\ tsCombined = <<>>
    /\ tsPc = "idle"
    /\ hsBaseId = Null
    /\ hsSeason = 1
    /\ hsEpisode = 1
    /\ hsAnime = FALSE
    /\ hsShowId = Null
    /\ hsTotal = NoNum
    /\ hsAvailable = NoNum
    /\ hsAbsolute = NoNum
    /\ hsCalls = <<>>
    /\ hsResponse = None
    /\ hsPc = "idle"
    /\ debridCache = <<>>
    /\ dcRequest = None
    /\ dcResult = None
    /\ dcServed = None
    /\ dcClock = 0
    /\ dcCount = 0
    /\ dcPc = "idle"
    /\ hsStreams = <<>>
    /\ dcStoredBy = {}
    /\ dcSteps = 0

NextParse ==
    \/ ExtractEpisodeInfo
    \/ FilterTorrentsByEpisode
SpecParse == InitParse /\ [][NextParse]_vars

\* the files of one torrent and the requested episode; the other operations are idle
InitFiles ==
    /\ absImdbId = Null
    /\ absSeason = 0
    /\ absEpisode = 0
    /\ absResult = NoNum
    /\ absPc = "idle"
    /\ parseTitle = ""
    /\ parseInfo = NoInfo
    /\ parsePc = "idle"
    /\ torrentFiles \in {WithIds(l) : l \in Listings}
    /\ reqEpisode \in {5, 6}
    /\ reqSeason \in {1, 2}
    /\ fileIndex \in {0, 2}
    /\ selectedFile = None
    /\ selPc = "start"
    /\ resTitle = ""
    /\ resSeason = 1
    /\ resImdbId = Null
    /\ resMalId = NoNum
    /\ resAniListId = NoNum
    /\ resPc = "idle"
    /\ resQueue = <<>>
    /\ resSearches = <<>>
    /\ resHits = <<>>
    /\ resAccepted = None
    /\ resStage = Null
    /\ resResult = Null
    /\ streamResponse = None
    /\ valEpisode = NoNum
    /\ valSeason = 1
    /\ validation = None
    /\ filtered = <<>>
    /\ simA = ""
    /\ simB = ""
    /\ simScore = None
    /\ simSwapped = None
    /\ simPc = "idle"
    /\ normTitle = ""
    /\ normOnce = Null
    /\ normTwice = Null
    /\ normPc = "idle"
    /\ anilistEntry = None
    /\ malEntry = None
    /\ mediaEpisodes = NoNum
    /\ mediaFinished = FALSE
    /\ scrEpisode = NoNum
    /\ scrResult = None
    /\ scrPc = "idle"
    /\ rateNow = 0
    /\ rateLimitMap = [ip \in {} |-> None]
    /\ rateCheck = None
    /\ rateIp = Null
    /\ rateSteps = 0
    /\ allowedLog = <<>>
    /\ ratePc = "idle"
    /\ adPc = "idle"
    /\ adAttempts = 0
    /\ adPolls = 0
    /\ adLastPoll = None
    /\ adResult = None
    /\ catalogCache = NoNum
    /\ filterOptionsCache = NoNum
    /\ cacheTimestamp = 0
    /\ catCalls = <<>>
    /\ catRefreshes = 0
    /\ catLoaded = {}
    /\ catClock = 0
    /\ catSteps = 0
    /\ catPc = "idle"
    /\ tsAnidbId = NoNum
    /\ tsAnidb = <<>>
    /\ tsNyaa = <<>>
    /\ tsTosho = <<>>
    /\ tsSynonyms = 0
    /\ tsSynonymResults = <<>>
    /\ tsCombined = <<>>
    /\ tsPc = "idle"
    /\ hsBaseId = Null
    /\ hsSeason = 1
    /\ hsEpisode = 1
    /\ hsAnime = FALSE
    /\ hsShowId = Null
    /\ hsTotal = NoNum
    /\ hsAvailable = NoNum
    /\ hsAbsolute = NoNum
    /\ hsCalls = <<>>
    /\ hsResponse = None
    /\ hsPc = "idle"
    /\ debridCache = <<>>
    /\ dcRequest = None
    /\ dcResult = None
    /\ dcServed = None
    /\ dcClock = 0
    /\ dcCount = 0
    /\ dcPc = "idle"
    /\ hsStreams = <<>>
    /\ dcStoredBy = {}
    /\ dcSteps = 0

NextFiles ==
    \/ GetAllDebridFiles
    \/ ResolveRealDebrid
SpecFiles == InitFiles /\ [][NextFiles]_vars

\* one request to resolve a show; the other operations are idle
InitResolve ==
    /\ absImdbId = Null
    /\ absSeason = 0
    /\ absEpisode = 0
    /\ absResult = NoNum
    /\ absPc = "idle"
    /\ parseTitle = ""
    /\ parseInfo = NoInfo
    /\ parsePc = "idle"
    /\ torrentFiles = <<>>
    /\ reqEpisode = NoNum
    /\ reqSeason = 1
    /\ fileIndex = 0
    /\ selectedFile = None
    /\ selPc = "idle"
    /\ resTitle \in ResTitles
    /\ resSeason \in 1..MaxResSeason
    /\ resImdbId \in ResImdbIds
    /\ resMalId \in ResMalIds
    /\ resAniListId \in ResAniListIds
    /\ resPc = "start"
    /\ resQueue = <<>>
    /\ resSearches = <<>>
    /\ resHits = <<>>
    /\ resAccepted = None
    /\ resStage = Null
    /\ resResult = Null
    /\ streamResponse = None
    /\ valEpisode = NoNum
    /\ valSeason = 1
    /\ validation = None
    /\ filtered = <<>>
    /\ simA = ""
    /\ simB = ""
    /\ simScore = None
    /\ simSwapped = None
    /\ simPc = "idle"
    /\ normTitle = ""
    /\ normOnce = Null
    /\ normTwice = Null
    /\ normPc = "idle"
    /\ anilistEntry = None
    /\ malEntry = None
    /\ mediaEpisodes = NoNum
    /\ mediaFinished = FALSE
    /\ scrEpisode = NoNum
    /\ scrResult = None
    /\ scrPc = "idle"
    /\ rateNow = 0
    /\ rateLimitMap = [ip \in {} |-> None]
    /\ rateCheck = None
    /\ rateIp = Null
    /\ rateSteps = 0
    /\ allowedLog = <<>>
    /\ ratePc = "idle"
    /\ adPc = "idle"
    /\ adAttempts = 0
    /\ adPolls = 0
    /\ adLastPoll = None
    /\ adResult = None
    /\ catalogCache = NoNum
    /\ filterOptionsCache = NoNum
    /\ cacheTimestamp = 0
    /\ catCalls = <<>>
    /\ catRefreshes = 0
    /\ catLoaded = {}
    /\ catClock = 0
    /\ catSteps = 0
    /\ catPc = "idle"
    /\ tsAnidbId = NoNum
    /\ tsAnidb = <<>>
    /\ tsNyaa = <<>>
    /\ tsTosho = <<>>
    /\ tsSynonyms = 0
    /\ tsSynonymResults = <<>>
    /\ tsCombined = <<>>
    /\ tsPc = "idle"
    /\ hsBaseId = Null
    /\ hsSeason = 1
    /\ hsEpisode = 1
    /\ hsAnime = FALSE
    /\ hsShowId = Null
    /\ hsTotal = NoNum
    /\ hsAvailable = NoNum
    /\ hsAbsolute = NoNum
    /\ hsCalls = <<>>
    /\ hsResponse = None
    /\ hsPc = "idle"
    /\ debridCache = <<>>
    /\ dcRequest = None
    /\ dcResult = None
    /\ dcServed = None
    /\ dcClock = 0
    /\ dcCount = 0
    /\ dcPc = "idle"
    /\ hsStreams = <<>>
    /\ dcStoredBy = {}
    /\ dcSteps = 0

NextResolve ==
    \/ FindAllAnimeShowForSeason
    \/ SearchAllAnime
    \/ HandleStream
SpecResolve == InitResolve /\ [][NextResolve]_vars

\* a pair of strings to compare; the other operations are idle
InitSimilarity ==
    /\ absImdbId = Null
    /\ absSeason = 0
    /\ absEpisode = 0
    /\ absResult = NoNum
    /\ absPc = "idle"
    /\ parseTitle = ""
    /\ parseInfo = NoInfo
    /\ parsePc = "idle"
    /\ torrentFiles = <<>>
    /\ reqEpisode = NoNum
    /\ reqSeason = 1
    /\ fileIndex = 0
    /\ selectedFile = None
    /\ selPc = "idle"
    /\ resTitle = ""
    /\ resSeason = 1
    /\ resImdbId = Null
    /\ resMalId = NoNum
    /\ resAniListId = NoNum
    /\ resPc = "idle"
    /\ resQueue = <<>>
    /\ resSearches = <<>>
    /\ resHits = <<>>
    /\ resAccepted = None
    /\ resStage = Null
    /\ resResult = Null
    /\ streamResponse = None
    /\ valEpisode = NoNum
    /\ valSeason = 1
    /\ validation = None
    /\ filtered = <<>>
    /\ simA \in SimStrings
    /\ simB \in SimStrings
    /\ simScore = None
    /\ simSwapped = None
    /\ simPc = "start"
    /\ normTitle = ""
    /\ normOnce = Null
    /\ normTwice = Null
    /\ normPc = "idle"
    /\ anilistEntry = None
    /\ malEntry = None
    /\ mediaEpisodes = NoNum
    /\ mediaFinished = FALSE
    /\ scrEpisode = NoNum
    /\ scrResult = None
    /\ scrPc = "idle"
    /\ rateNow = 0
    /\ rateLimitMap = [ip \in {} |-> None]
    /\ rateCheck = None
    /\ rateIp = Null
    /\ rateSteps = 0
    /\ allowedLog = <<>>
    /\ ratePc = "idle"
    /\ adPc = "idle"
    /\ adAttempts = 0
    /\ adPolls = 0
    /\ adLastPoll = None
    /\ adResult = None
    /\ catalogCache = NoNum
    /\ filterOptionsCache = NoNum
    /\ cacheTimestamp = 0
    /\ catCalls = <<>>
    /\ catRefreshes = 0
    /\ catLoaded = {}
    /\ catClock = 0
    /\ catSteps = 0
    /\ catPc = "idle"
    /\ tsAnidbId = NoNum
    /\ tsAnidb = <<>>
    /\ tsNyaa = <<>>
    /\ tsTosho = <<>>
    /\ tsSynonyms = 0
    /\ tsSynonymResults = <<>>
    /\ tsCombined = <<>>
    /\ tsPc = "idle"
    /\ hsBaseId = Null
    /\ hsSeason = 1
    /\ hsEpisode = 1
    /\ hsAnime = FALSE
    /\ hsShowId = Null
    /\ hsTotal = NoNum
    /\ hsAvailable = NoNum
    /\ hsAbsolute = NoNum
    /\ hsCalls = <<>>
    /\ hsResponse = None
    /\ hsPc = "idle"
    /\ debridCache = <<>>
    /\ dcRequest = None
    /\ dcResult = None
    /\ dcServed = None
    /\ dcClock = 0
    /\ dcCount = 0
    /\ dcPc = "idle"
    /\ hsStreams = <<>>
    /\ dcStoredBy = {}
    /\ dcSteps = 0

NextSimilarity ==
    \/ StringSimilarity
    \/ HandlerStringSimilarity
SpecSimilarity == InitSimilarity /\ [][NextSimilarity]_vars

\* one title to normalize; the other operations are idle
InitNormalize ==
    /\ absImdbId = Null
    /\ absSeason = 0
    /\ absEpisode = 0
    /\ absResult = NoNum
    /\ absPc = "idle"
    /\ parseTitle = ""
    /\ parseInfo = NoInfo
    /\ parsePc = "idle"
    /\ torrentFiles = <<>>
    /\ reqEpisode = NoNum
    /\ reqSeason = 1
    /\ fileIndex = 0
    /\ selectedFile = None
    /\ selPc = "idle"
    /\ resTitle = ""
    /\ resSeason = 1
    /\ resImdbId = Null
    /\ resMalId = NoNum
    /\ resAniListId = NoNum
    /\ resPc = "idle"
    /\ resQueue = <<>>
    /\ resSearches = <<>>
    /\ resHits = <<>>
    /\ resAccepted = None
    /\ resStage = Null
    /\ resResult = Null
    /\ streamResponse = None
    /\ valEpisode = NoNum
    /\ valSeason = 1
    /\ validation = None
    /\ filtered = <<>>
    /\ simA = ""
    /\ simB = ""
    /\ simScore = None
    /\ simSwapped = None
    /\ simPc = "idle"
    /\ normTitle \in NormTitles
    /\ normOnce = Null
    /\ normTwice = Null
    /\ normPc = "start"
    /\ anilistEntry = None
    /\ malEntry = None
    /\ mediaEpisodes = NoNum
    /\ mediaFinished = FALSE
    /\ scrEpisode = NoNum
    /\ scrResult = None
    /\ scrPc = "idle"
    /\ rateNow = 0
    /\ rateLimitMap = [ip \in {} |-> None]
    /\ rateCheck = None
    /\ rateIp = Null
    /\ rateSteps = 0
    /\ allowedLog = <<>>
    /\ ratePc = "idle"
    /\ adPc = "idle"
    /\ adAttempts = 0
    /\ adPolls = 0
    /\ adLastPoll = None
    /\ adResult = None
    /\ catalogCache = NoNum
    /\ filterOptionsCache = NoNum
    /\ cacheTimestamp = 0
    /\ catCalls = <<>>
    /\ catRefreshes = 0
    /\ catLoaded = {}
    /\ catClock = 0
    /\ catSteps = 0
    /\ catPc = "idle"
    /\ tsAnidbId = NoNum
    /\ tsAnidb = <<>>
    /\ tsNyaa = <<>>
    /\ tsTosho = <<>>
    /\ tsSynonyms = 0
    /\ tsSynonymResults = <<>>
    /\ tsCombined = <<>>
    /\ tsPc = "idle"
    /\ hsBaseId = Null
    /\ hsSeason = 1
    /\ hsEpisode = 1
    /\ hsAnime = FALSE
    /\ hsShowId = Null
    /\ hsTotal = NoNum
    /\ hsAvailable = NoNum
    /\ hsAbsolute = NoNum
    /\ hsCalls = <<>>
    /\ hsResponse = None
    /\ hsPc = "idle"
    /\ debridCache = <<>>
    /\ dcRequest = None
    /\ dcResult = None
    /\ dcServed = None
    /\ dcClock = 0
    /\ dcCount = 0
    /\ dcPc = "idle"
    /\ hsStreams = <<>>
    /\ dcStoredBy = {}
    /\ dcSteps = 0

NextNormalize == NormalizeTitle
SpecNormalize == InitNormalize /\ [][NextNormalize]_vars

\* the entries of one anime on the lists of a user, with a progress within
\* the episode count when that is known, and scrobbles of its episodes; the
\* other operations are idle
InitScrobble ==
    /\ absImdbId = Null
    /\ absSeason = 0
    /\ absEpisode = 0
    /\ absResult = NoNum
    /\ absPc = "idle"
    /\ parseTitle = ""
    /\ parseInfo = NoInfo
    /\ parsePc = "idle"
    /\ torrentFiles = <<>>
    /\ reqEpisode = NoNum
    /\ reqSeason = 1
    /\ fileIndex = 0
    /\ selectedFile = None
    /\ selPc = "idle"
    /\ resTitle = ""
    /\ resSeason = 1
    /\ resImdbId = Null
    /\ resMalId = NoNum
    /\ resAniListId = NoNum
    /\ resPc = "idle"
    /\ resQueue = <<>>
    /\ resSearches = <<>>
    /\ resHits = <<>>
    /\ resAccepted = None
    /\ resStage = Null
    /\ resResult = Null
    /\ streamResponse = None
    /\ valEpisode = NoNum
    /\ valSeason = 1
    /\ validation = None
    /\ filtered = <<>>
    /\ simA = ""
    /\ simB = ""
    /\ simScore = None
    /\ simSwapped = None
    /\ simPc = "idle"
    /\ normTitle = ""
    /\ normOnce = Null
    /\ normTwice = Null
    /\ normPc = "idle"
    /\ anilistEntry \in EntriesOf(AnilistStatuses)
    /\ malEntry \in EntriesOf(MalStatuses)
    /\ mediaEpisodes \in MediaEpisodeCounts
    /\ mediaFinished \in BOOLEAN
    /\ scrEpisode = NoNum
    /\ scrResult = None
    /\ scrPc = "ready"
    /\ ProgressOf(anilistEntry) <= TotalEpisodes(mediaEpisodes)
    /\ ProgressOf(malEntry) <= TotalEpisodes(mediaEpisodes)
    /\ rateNow = 0
    /\ rateLimitMap = [ip \in {} |-> None]
    /\ rateCheck = None
    /\ rateIp = Null
    /\ rateSteps = 0
    /\ allowedLog = <<>>
    /\ ratePc = "idle"
    /\ adPc = "idle"
    /\ adAttempts = 0
    /\ adPolls = 0
    /\ adLastPoll = None
    /\ adResult = None
    /\ catalogCache = NoNum
    /\ filterOptionsCache = NoNum
    /\ cacheTimestamp = 0
    /\ catCalls = <<>>
    /\ catRefreshes = 0
    /\ catLoaded = {}
    /\ catClock = 0
    /\ catSteps = 0
    /\ catPc = "idle"
    /\ tsAnidbId = NoNum
    /\ tsAnidb = <<>>
    /\ tsNyaa = <<>>
    /\ tsTosho = <<>>
    /\ tsSynonyms = 0
    /\ tsSynonymResults = <<>>
    /\ tsCombined = <<>>
    /\ tsPc = "idle"
    /\ hsBaseId = Null
    /\ hsSeason = 1
    /\ hsEpisode = 1
    /\ hsAnime = FALSE
    /\ hsShowId = Null
    /\ hsTotal = NoNum
    /\ hsAvailable = NoNum
    /\ hsAbsolute = NoNum
    /\ hsCalls = <<>>
    /\ hsResponse = None
    /\ hsPc = "idle"
    /\ debridCache = <<>>
    /\ dcRequest = None
    /\ dcResult = None
    /\ dcServed = None
    /\ dcClock = 0
    /\ dcCount = 0
    /\ dcPc = "idle"
    /\ hsStreams = <<>>
    /\ dcStoredBy = {}
    /\ dcSteps = 0

NextScrobble ==
    \/ ScrobbleToAnilist
    \/ ScrobbleToMal
SpecScrobble == InitScrobble /\ [][NextScrobble]_vars

\* a client that sends requests to the rate-limited paths while time passes:
\* the map of the limiter is empty when the worker starts
InitRate ==
    /\ absImdbId = Null
    /\ absSeason = 0
    /\ absEpisode = 0
    /\ absResult = NoNum
    /\ absPc = "idle"
    /\ parseTitle = ""
    /\ parseInfo = NoInfo
    /\ parsePc = "idle"
    /\ torrentFiles = <<>>
    /\ reqEpisode = NoNum
    /\ reqSeason = 1
    /\ fileIndex = 0
    /\ selectedFile = None
    /\ selPc = "idle"
    /\ resTitle = ""
    /\ resSeason = 1
    /\ resImdbId = Null
    /\ resMalId = NoNum
    /\ resAniListId = NoNum
    /\ resPc = "idle"
    /\ resQueue = <<>>
    /\ resSearches = <<>>
    /\ resHits = <<>>
    /\ resAccepted = None
    /\ resStage = Null
    /\ resResult = Null
    /\ streamResponse = None
    /\ valEpisode = NoNum
    /\ valSeason = 1
    /\ validation = None
    /\ filtered = <<>>
    /\ simA = ""
    /\ simB = ""
    /\ simScore = None
    /\ simSwapped = None
    /\ simPc = "idle"
    /\ normTitle = ""
    /\ normOnce = Null
    /\ normTwice = Null
    /\ normPc = "idle"
    /\ anilistEntry = None
    /\ malEntry = None
    /\ mediaEpisodes = NoNum
    /\ mediaFinished = FALSE
    /\ scrEpisode = NoNum
    /\ scrResult = None
    /\ scrPc = "idle"
    /\ rateNow = 0
    /\ rateLimitMap = [ip \in ClientIPs |-> None]
    /\ rateCheck = None
    /\ rateIp = Null
    /\ rateSteps = 0
    /\ allowedLog = <<>>
    /\ ratePc = "ready"
    /\ adPc = "idle"
    /\ adAttempts = 0
    /\ adPolls = 0
    /\ adLastPoll = None
    /\ adResult = None
    /\ catalogCache = NoNum
    /\ filterOptionsCache = NoNum
    /\ cacheTimestamp = 0
    /\ catCalls = <<>>
    /\ catRefreshes = 0
    /\ catLoaded = {}
    /\ catClock = 0
    /\ catSteps = 0
    /\ catPc = "idle"
    /\ tsAnidbId = NoNum
    /\ tsAnidb = <<>>
    /\ tsNyaa = <<>>
    /\ tsTosho = <<>>
    /\ tsSynonyms = 0
    /\ tsSynonymResults = <<>>
    /\ tsCombined = <<>>
    /\ tsPc = "idle"
    /\ hsBaseId = Null
    /\ hsSeason = 1
    /\ hsEpisode = 1
    /\ hsAnime = FALSE
    /\ hsShowId = Null
    /\ hsTotal = NoNum
    /\ hsAvailable = NoNum
    /\ hsAbsolute = NoNum
    /\ hsCalls = <<>>
    /\ hsResponse = None
    /\ hsPc = "idle"
    /\ debridCache = <<>>
    /\ dcRequest = None
    /\ dcResult = None
    /\ dcServed = None
    /\ dcClock = 0
    /\ dcCount = 0
    /\ dcPc = "idle"
    /\ hsStreams = <<>>
    /\ dcStoredBy = {}
    /\ dcSteps = 0

NextRate ==
    \/ CheckRateLimit
    \/ ClockStep
SpecRate == InitRate /\ [][NextRate]_vars

\* resolveAllDebrid is called for a magnet
InitAllDebrid ==
    /\ absImdbId = Null
    /\ absSeason = 0
    /\ absEpisode = 0
    /\ absResult = NoNum
    /\ absPc = "idle"
    /\ parseTitle = ""
    /\ parseInfo = NoInfo
    /\ parsePc = "idle"
    /\ torrentFiles = <<>>
    /\ reqEpisode = NoNum
    /\ reqSeason = 1
    /\ fileIndex = 0
    /\ selectedFile = None
    /\ selPc = "idle"
    /\ resTitle = ""
    /\ resSeason = 1
    /\ resImdbId = Null
    /\ resMalId = NoNum
    /\ resAniListId = NoNum
    /\ resPc = "idle"
    /\ resQueue = <<>>
    /\ resSearches = <<>>
    /\ resHits = <<>>
    /\ resAccepted = None
    /\ resStage = Null
    /\ resResult = Null
    /\ streamResponse = None
    /\ valEpisode = NoNum
    /\ valSeason = 1
    /\ validation = None
    /\ filtered = <<>>
    /\ simA = ""
    /\ simB = ""
    /\ simScore = None
    /\ simSwapped = None
    /\ simPc = "idle"
    /\ normTitle = ""
    /\ normOnce = Null
    /\ normTwice = Null
    /\ normPc = "idle"
    /\ anilistEntry = None
    /\ malEntry = None
    /\ mediaEpisodes = NoNum
    /\ mediaFinished = FALSE
    /\ scrEpisode = NoNum
    /\ scrResult = None
    /\ scrPc = "idle"
    /\ rateNow = 0
    /\ rateLimitMap = [ip \in {} |-> None]
    /\ rateCheck = None
    /\ rateIp = Null
    /\ rateSteps = 0
    /\ allowedLog = <<>>
    /\ ratePc = "idle"
    /\ adPc = "upload"
    /\ adAttempts = 0
    /\ adPolls = 0
    /\ adLastPoll = None
    /\ adResult = None
    /\ catalogCache = NoNum
    /\ filterOptionsCache = NoNum
    /\ cacheTimestamp = 0
    /\ catCalls = <<>>
    /\ catRefreshes = 0
    /\ catLoaded = {}
    /\ catClock = 0
    /\ catSteps = 0
    /\ catPc = "idle"
    /\ tsAnidbId = NoNum
    /\ tsAnidb = <<>>
    /\ tsNyaa = <<>>
    /\ tsTosho = <<>>
    /\ tsSynonyms = 0
    /\ tsSynonymResults = <<>>
    /\ tsCombined = <<>>
    /\ tsPc = "idle"
    /\ hsBaseId = Null
    /\ hsSeason = 1
    /\ hsEpisode = 1
    /\ hsAnime = FALSE
    /\ hsShowId = Null
    /\ hsTotal = NoNum
    /\ hsAvailable = NoNum
    /\ hsAbsolute = NoNum
    /\ hsCalls = <<>>
    /\ hsResponse = None
    /\ hsPc = "idle"
    /\ debridCache = <<>>
    /\ dcRequest = None
    /\ dcResult = None
    /\ dcServed = None
    /\ dcClock = 0
    /\ dcCount = 0
    /\ dcPc = "idle"
    /\ hsStreams = <<>>
    /\ dcStoredBy = {}
    /\ dcSteps = 0

NextAllDebrid ==
    \/ UploadMagnet
    \/ PollStatus
SpecAllDebrid == InitAllDebrid /\ [][NextAllDebrid]_vars

\* a worker instance that has just started: nothing is cached, and the
\* requests of the callers that need the catalog
InitCatalog ==
    /\ absImdbId = Null
    /\ absSeason = 0
    /\ absEpisode = 0
    /\ absResult = NoNum
    /\ absPc = "idle"
    /\ parseTitle = ""
    /\ parseInfo = NoInfo
    /\ parsePc = "idle"
    /\ torrentFiles = <<>>
    /\ reqEpisode = NoNum
    /\ reqSeason = 1
    /\ fileIndex = 0
    /\ selectedFile = None
    /\ selPc = "idle"
    /\ resTitle = ""
    /\ resSeason = 1
    /\ resImdbId = Null
    /\ resMalId = NoNum
    /\ resAniListId = NoNum
    /\ resPc = "idle"
    /\ resQueue = <<>>
    /\ resSearches = <<>>
    /\ resHits = <<>>
    /\ resAccepted = None
    /\ resStage = Null
    /\ resResult = Null
    /\ streamResponse = None
    /\ valEpisode = NoNum
    /\ valSeason = 1
    /\ validation = None
    /\ filtered = <<>>
    /\ simA = ""
    /\ simB = ""
    /\ simScore = None
    /\ simSwapped = None
    /\ simPc = "idle"
    /\ normTitle = ""
    /\ normOnce = Null
    /\ normTwice = Null
    /\ normPc = "idle"
    /\ anilistEntry = None
    /\ malEntry = None
    /\ mediaEpisodes = NoNum
    /\ mediaFinished = FALSE
    /\ scrEpisode = NoNum
    /\ scrResult = None
    /\ scrPc = "idle"
    /\ rateNow = 0
    /\ rateLimitMap = [ip \in {} |-> None]
    /\ rateCheck = None
    /\ rateIp = Null
    /\ rateSteps = 0
    /\ allowedLog = <<>>
    /\ ratePc = "idle"
    /\ adPc = "idle"
    /\ adAttempts = 0
    /\ adPolls = 0
    /\ adLastPoll = None
    /\ adResult = None
    /\ catalogCache = NoNum
    /\ filterOptionsCache = NoNum
    /\ cacheTimestamp = 0
    /\ catCalls = [c \in Callers |-> NoCall]
    /\ catRefreshes = 0
    /\ catLoaded = {}
    /\ catClock = CACHE_TTL * 1000
    /\ catSteps = 0
    /\ catPc = "ready"
    /\ tsAnidbId = NoNum
    /\ tsAnidb = <<>>
    /\ tsNyaa = <<>>
    /\ tsTosho = <<>>
    /\ tsSynonyms = 0
    /\ tsSynonymResults = <<>>
    /\ tsCombined = <<>>
    /\ tsPc = "idle"
    /\ hsBaseId = Null
    /\ hsSeason = 1
    /\ hsEpisode = 1
    /\ hsAnime = FALSE
    /\ hsShowId = Null
    /\ hsTotal = NoNum
    /\ hsAvailable = NoNum
    /\ hsAbsolute = NoNum
    /\ hsCalls = <<>>
    /\ hsResponse = None
    /\ hsPc = "idle"
    /\ debridCache = <<>>
    /\ dcRequest = None
    /\ dcResult = None
    /\ dcServed = None
    /\ dcClock = 0
    /\ dcCount = 0
    /\ dcPc = "idle"
    /\ hsStreams = <<>>
    /\ dcStoredBy = {}
    /\ dcSteps = 0

NextCatalog ==
    \/ FetchCatalogData
    \/ ResponsesArrive
    \/ CatalogJson
    \/ FilterJson
    \/ CatalogClockStep
SpecCatalog == InitCatalog /\ [][NextCatalog]_vars

\* the searches of one request: an anime with or without an AniDB id and with
\* or without synonyms, and the torrents that the scrapers find
InitTorrents ==
    /\ absImdbId = Null
    /\ absSeason = 0
    /\ absEpisode = 0
    /\ absResult = NoNum
    /\ absPc = "idle"
    /\ parseTitle = ""
    /\ parseInfo = NoInfo
    /\ parsePc = "idle"
    /\ torrentFiles = <<>>
    /\ reqEpisode = NoNum
    /\ reqSeason = 1
    /\ fileIndex = 0
    /\ selectedFile = None
    /\ selPc = "idle"
    /\ resTitle = ""
    /\ resSeason = 1
    /\ resImdbId = Null
    /\ resMalId = NoNum
    /\ resAniListId = NoNum
    /\ resPc = "idle"
    /\ resQueue = <<>>
    /\ resSearches = <<>>
    /\ resHits = <<>>
    /\ resAccepted = None
    /\ resStage = Null
    /\ resResult = Null
    /\ streamResponse = None
    /\ valEpisode = NoNum
    /\ valSeason = 1
    /\ validation = None
    /\ filtered = <<>>
    /\ simA = ""
    /\ simB = ""
    /\ simScore = None
    /\ simSwapped = None
    /\ simPc = "idle"
    /\ normTitle = ""
    /\ normOnce = Null
    /\ normTwice = Null
    /\ normPc = "idle"
    /\ anilistEntry = None
    /\ malEntry = None
    /\ mediaEpisodes = NoNum
    /\ mediaFinished = FALSE
    /\ scrEpisode = NoNum
    /\ scrResult = None
    /\ scrPc = "idle"
    /\ rateNow = 0
    /\ rateLimitMap = [ip \in {} |-> None]
    /\ rateCheck = None
    /\ rateIp = Null
    /\ rateSteps = 0
    /\ allowedLog = <<>>
    /\ ratePc = "idle"
    /\ adPc = "idle"
    /\ adAttempts = 0
    /\ adPolls = 0
    /\ adLastPoll = None
    /\ adResult = None
    /\ catalogCache = NoNum
    /\ filterOptionsCache = NoNum
    /\ cacheTimestamp = 0
    /\ catCalls = <<>>
    /\ catRefreshes = 0
    /\ catLoaded = {}
    /\ catClock = 0
    /\ catSteps = 0
    /\ catPc = "idle"
    /\ tsAnidbId \in {NoNum, 69}
    /\ tsAnidb \in TorrentLists(AnidbTorrents)
    /\ tsNyaa \in TorrentLists(NyaaTorrents)
    /\ tsTosho \in {l \in TorrentLists(ToshoTorrents) : NoRepeat(l)}
    /\ tsSynonyms \in {0, 1}
    /\ tsSynonymResults \in SynonymResults
    /\ tsCombined = <<>>
    /\ tsPc = "start"
    /\ hsBaseId = Null
    /\ hsSeason = 1
    /\ hsEpisode = 1
    /\ hsAnime = FALSE
    /\ hsShowId = Null
    /\ hsTotal = NoNum
    /\ hsAvailable = NoNum
    /\ hsAbsolute = NoNum
    /\ hsCalls = <<>>
    /\ hsResponse = None
    /\ hsPc = "idle"
    /\ debridCache = <<>>
    /\ dcRequest = None
    /\ dcResult = None
    /\ dcServed = None
    /\ dcClock = 0
    /\ dcCount = 0
    /\ dcPc = "idle"
    /\ hsStreams = <<>>
    /\ dcStoredBy = {}
    /\ dcSteps = 0

NextTorrents ==
    \/ GetTorrentStreams
SpecTorrents == InitTorrents /\ [][NextTorrents]_vars

\* a stream request for one episode of a season; the other operations are idle
InitStream ==
    /\ absImdbId = Null
    /\ absSeason = 0
    /\ absEpisode = 0
    /\ absResult = NoNum
    /\ absPc = "idle"
    /\ parseTitle = ""
    /\ parseInfo = NoInfo
    /\ parsePc = "idle"
    /\ torrentFiles = <<>>
    /\ reqEpisode = NoNum
    /\ reqSeason = 1
    /\ fileIndex = 0
    /\ selectedFile = None
    /\ selPc = "idle"
    /\ resTitle = ""
    /\ resSeason = 1
    /\ resImdbId = Null
    /\ resMalId = NoNum
    /\ resAniListId = NoNum
    /\ resPc = "idle"
    /\ resQueue = <<>>
    /\ resSearches = <<>>
    /\ resHits = <<>>
    /\ resAccepted = None
    /\ resStage = Null
    /\ resResult = Null
    /\ streamResponse = None
    /\ valEpisode = NoNum
    /\ valSeason = 1
    /\ validation = None
    /\ filtered = <<>>
    /\ simA = ""
    /\ simB = ""
    /\ simScore = None
    /\ simSwapped = None
    /\ simPc = "idle"
    /\ normTitle = ""
    /\ normOnce = Null
    /\ normTwice = Null
    /\ normPc = "idle"
    /\ anilistEntry = None
    /\ malEntry = None
    /\ mediaEpisodes = NoNum
    /\ mediaFinished = FALSE
    /\ scrEpisode = NoNum
    /\ scrResult = None
    /\ scrPc = "idle"
    /\ rateNow = 0
    /\ rateLimitMap = [ip \in {} |-> None]
    /\ rateCheck = None
    /\ rateIp = Null
    /\ rateSteps = 0
    /\ allowedLog = <<>>
    /\ ratePc = "idle"
    /\ adPc = "idle"
    /\ adAttempts = 0
    /\ adPolls = 0
    /\ adLastPoll = None
    /\ adResult = None
    /\ catalogCache = NoNum
    /\ filterOptionsCache = NoNum
    /\ cacheTimestamp = 0
    /\ catCalls = <<>>
    /\ catRefreshes = 0
    /\ catLoaded = {}
    /\ catClock = 0
    /\ catSteps = 0
    /\ catPc = "idle"
    /\ tsAnidbId = NoNum
    /\ tsAnidb = <<>>
    /\ tsNyaa = <<>>
    /\ tsTosho = <<>>
    /\ tsSynonyms = 0
    /\ tsSynonymResults = <<>>
    /\ tsCombined = <<>>
    /\ tsPc = "idle"
    /\ hsBaseId \in StreamBaseIds
    /\ hsSeason \in StreamSeasons
    /\ hsEpisode \in StreamEpisodes
    /\ hsAnime = FALSE
    /\ hsShowId = Null
    /\ hsTotal = NoNum
    /\ hsAvailable = NoNum
    /\ hsAbsolute = NoNum
    /\ hsCalls = <<>>
    /\ hsResponse = None
    /\ hsPc = "start"
    /\ debridCache = <<>>
    /\ dcRequest = None
    /\ dcResult = None
    /\ dcServed = None
    /\ dcClock = 0
    /\ dcCount = 0
    /\ dcPc = "idle"
    /\ hsStreams = <<>>
    /\ dcStoredBy = {}
    /\ dcSteps = 0

NextStream ==
    \/ FindAnime
    \/ ResolveShow
    \/ CheckBounds
    \/ GetEpisodeSources
    \/ SearchTorrents
SpecStream == InitStream /\ [][NextStream]_vars

\* requests to /debrid/play that reach resolveDebrid, with an empty cache at
\* the start of the worker; the other operations are idle
InitDebrid ==
    /\ absImdbId = Null
    /\ absSeason = 0
    /\ absEpisode = 0
    /\ absResult = NoNum
    /\ absPc = "idle"
    /\ parseTitle = ""
    /\ parseInfo = NoInfo
    /\ parsePc = "idle"
    /\ torrentFiles = <<>>
    /\ reqEpisode = NoNum
    /\ reqSeason = 1
    /\ fileIndex = 0
    /\ selectedFile = None
    /\ selPc = "idle"
    /\ resTitle = ""
    /\ resSeason = 1
    /\ resImdbId = Null
    /\ resMalId = NoNum
    /\ resAniListId = NoNum
    /\ resPc = "idle"
    /\ resQueue = <<>>
    /\ resSearches = <<>>
    /\ resHits = <<>>
    /\ resAccepted = None
    /\ resStage = Null
    /\ resResult = Null
    /\ streamResponse = None
    /\ valEpisode = NoNum
    /\ valSeason = 1
    /\ validation = None
    /\ filtered = <<>>
    /\ simA = ""
    /\ simB = ""
    /\ simScore = None
    /\ simSwapped = None
    /\ simPc = "idle"
    /\ normTitle = ""
    /\ normOnce = Null
    /\ normTwice = Null
    /\ normPc = "idle"
    /\ anilistEntry = None
    /\ malEntry = None
    /\ mediaEpisodes = NoNum
    /\ mediaFinished = FALSE
    /\ scrEpisode = NoNum
    /\ scrResult = None
    /\ scrPc = "idle"
    /\ rateNow = 0
    /\ rateLimitMap = [ip \in {} |-> None]
    /\ rateCheck = None
    /\ rateIp = Null
    /\ rateSteps = 0
    /\ allowedLog = <<>>
    /\ ratePc = "idle"
    /\ adPc = "idle"
    /\ adAttempts = 0
    /\ adPolls = 0
    /\ adLastPoll = None
    /\ adResult = None
    /\ catalogCache = NoNum
    /\ filterOptionsCache = NoNum
    /\ cacheTimestamp = 0
    /\ catCalls = <<>>
    /\ catRefreshes = 0
    /\ catLoaded = {}
    /\ catClock = 0
    /\ catSteps = 0
    /\ catPc = "idle"
    /\ tsAnidbId = NoNum
    /\ tsAnidb = <<>>
    /\ tsNyaa = <<>>
    /\ tsTosho = <<>>
    /\ tsSynonyms = 0
    /\ tsSynonymResults = <<>>
    /\ tsCombined = <<>>
    /\ tsPc = "idle"
    /\ hsBaseId = Null
    /\ hsSeason = 1
    /\ hsEpisode = 1
    /\ hsAnime = FALSE
    /\ hsShowId = Null
    /\ hsTotal = NoNum
    /\ hsAvailable = NoNum
    /\ hsAbsolute = NoNum
    /\ hsCalls = <<>>
    /\ hsResponse = None
    /\ hsPc = "idle"
    /\ debridCache = <<>>
    /\ dcRequest = None
    /\ dcResult = None
    /\ dcServed = None
    /\ dcClock = 0
    /\ dcCount = 0
    /\ dcPc = "ready"
    /\ hsStreams = <<>>
    /\ dcStoredBy = {}
    /\ dcSteps = 0

NextDebrid ==
    \/ ResolveDebrid
    \/ DebridClockStep
SpecDebrid == InitDebrid /\ [][NextDebrid]_vars

-----------------------------------------------------------------------------
(* Properties of the file selection *)

SelectionDone == selPc \in {"alldebrid", "realdebrid"}

\* the name the provider that ran tests: AllDebrid the file name,
\* Real-Debrid the path
ProviderName(f) == IF selPc = "realdebrid" THEN RdPath(f) ELSE f.n

VideoIds == {i \in 1..Len(torrentFiles) : IsVideoFile(ProviderName(torrentFiles[i]))}

\* the video files off the denylist whose parsed episode is the requested one
\* and whose parsed season is absent or the requested one
MatchingIds ==
    {i \in VideoIds :
        /\ ~IsNonEpisodeFile(ProviderName(torrentFiles[i]))
        /\ EpisodeInfoOfFile(ProviderName(torrentFiles[i])).episode = reqEpisode
        /\ EpisodeInfoOfFile(ProviderName(torrentFiles[i])).season \in {NoNum, reqSeason}}

\* C1: over a torrent of several video files, when no file off the denylist
\* has the requested episode (and no or the requested season), no file is
\* selected: the outcome is "no confident match", not the file at fileIndex
\* nor the first or largest file.
C1_NoPositionalFallback ==
    (SelectionDone /\ TruthyNum(reqEpisode) /\ Cardinality(VideoIds) > 1
        /\ MatchingIds = {})
    => selectedFile = None

C3_DenylistedNeverSelected ==
    (SelectionDone /\ TruthyNum(reqEpisode) /\ selectedFile # None)
    => ~IsNonEpisodeFile(selectedFile[1].n)

\* the orders the files of the torrent can be listed in
Orderings ==
    {p \in [1..Len(torrentFiles) -> 1..Len(torrentFiles)] :
        \A i, j \in 1..Len(torrentFiles) : i # j => p[i] # p[j]}

Reordered(p) == [i \in 1..Len(torrentFiles) |-> torrentFiles[p[i]]]

\* the selection of the provider that ran, on another listing of the files
SelectionOf(listing) ==
    IF selPc = "realdebrid"
    THEN resolveRealDebrid(listing, fileIndex, reqEpisode, reqSeason)
    ELSE getAllDebridFiles(listing, fileIndex, reqEpisode, reqSeason)

\* no two video files of the torrent have the same size
DistinctSizes ==
    \A i, j \in VideoIds : i # j => torrentFiles[i].s # torrentFiles[j].s

\* C19: for the same files and the same requested season and episode the
\* selection is the same file in every order of the file list, when no two
\* video files have the same size.
C19_OrderIndependent ==
    (SelectionDone /\ TruthyNum(reqEpisode) /\ DistinctSizes)
    => \A p \in Orderings : SelectionOf(Reordered(p)) = selectedFile

-----------------------------------------------------------------------------
(* Properties of extractEpisodeInfo *)

MatchesBatchPattern(title) ==
    \E i \in 1..Len(batchPatterns) : Test(batchPatterns[i], title, TRUE)

MatchesEpisodePattern(title) ==
    \/ Test(sxePattern, title, TRUE)
    \/ Test(dashEpPattern, title, FALSE)
    \/ Test(epWordPattern, title, TRUE)
    \/ Test(bracketEpPattern, title, FALSE)
    \/ Test(sepEpPattern, title, FALSE)
    \/ Test(jpEpPattern, title, FALSE)

\* C4: for every title that matches a batch pattern the result has
\* isBatch = true and neither an episode nor a season, also when the title
\* matches single-episode patterns.
C4_BatchPrecedence ==
    (parsePc = "done" /\ MatchesBatchPattern(parseTitle))
    => /\ parseInfo.isBatch
       /\ parseInfo.episode = NoNum
       /\ parseInfo.season = NoNum

\* a parsed title that matches a batch pattern and a single-episode pattern
C4_Witness ==
    /\ parsePc = "done"
    /\ MatchesBatchPattern(parseTitle)
    /\ MatchesEpisodePattern(parseTitle)
    /\ parseInfo.isBatch

-----------------------------------------------------------------------------
(* Properties of convertToAbsoluteEpisode and of the season table *)

HasRange(imdbId, season) ==
    /\ imdbId \in DOMAIN EPISODE_SEASON_MAPPINGS
    /\ \E i \in 1..Len(EPISODE_SEASON_MAPPINGS[imdbId].seasons) :
            EPISODE_SEASON_MAPPINGS[imdbId].seasons[i].season = season

RangeOf(imdbId, season) ==
    LET ss == EPISODE_SEASON_MAPPINGS[imdbId].seasons
    IN  ss[CHOOSE i \in 1..Len(ss) : ss[i].season = season]


\* C5: for a series of the table and a season that has a range, the result is
\* min(start + (episode - 1), end) for every episode >= 1.
C5_ClampedOffset ==
    (absPc = "done" /\ HasRange(absImdbId, absSeason))
    => absResult = Min(RangeOf(absImdbId, absSeason).start + (absEpisode - 1),
                       RangeOf(absImdbId, absSeason).end)

\* a converted episode beyond the range of its season
C5_Witness ==
    /\ absPc = "done"
    /\ HasRange(absImdbId, absSeason)
    /\ RangeOf(absImdbId, absSeason).start + (absEpisode - 1)
            > RangeOf(absImdbId, absSeason).end
    /\ absResult = RangeOf(absImdbId, absSeason).end

\* C6: the episode is returned unchanged when the series has no entry in the
\* table and when the series has an entry but no range for the season.
C6_IdentityWithoutRange ==
    (absPc = "done" /\ ~HasRange(absImdbId, absSeason))
    => absResult = absEpisode

\* a converted episode of a series of the table in a season without range
C6_Witness ==
    /\ absPc = "done"
    /\ absImdbId \in DOMAIN EPISODE_SEASON_MAPPINGS
    /\ ~HasRange(absImdbId, absSeason)
    /\ absResult = absEpisode
    /\ absEpisode > 1

\* C7: with a range, the result for episode + 1 is the result for episode
\* plus 1 while that is below the end of the range; once the result is the
\* end, it is the end for every larger episode.
C7_StepUntilEnd ==
    (absPc = "done" /\ HasRange(absImdbId, absSeason))
    => /\ absResult < RangeOf(absImdbId, absSeason).end
            => convertToAbsoluteEpisode(absImdbId, absSeason, absEpisode + 1)
                    = absResult + 1
       /\ absResult = RangeOf(absImdbId, absSeason).end
            => \A e \in (absEpisode + 1)..(MaxEpisode + 1) :
                    convertToAbsoluteEpisode(absImdbId, absSeason, e)
                        = RangeOf(absImdbId, absSeason).end

\* the episode whose conversion is exactly the end of the range
C7_Witness ==
    /\ absPc = "done"
    /\ HasRange(absImdbId, absSeason)
    /\ RangeOf(absImdbId, absSeason).start + (absEpisode - 1)
            = RangeOf(absImdbId, absSeason).end
    /\ absResult = RangeOf(absImdbId, absSeason).end
    /\ absEpisode < MaxEpisode
    /\ absSeason > 1

\* C8: for every series of the table the ranges are in ascending season
\* order, every range has start <= end, and every range starts right behind
\* the end of the range before it, so that no two ranges overlap.
C8_ContiguousRanges ==
    absImdbId \in DOMAIN EPISODE_SEASON_MAPPINGS
    => LET ss == EPISODE_SEASON_MAPPINGS[absImdbId].seasons
       IN  /\ \A i \in 1..Len(ss) : ss[i].start <= ss[i].end
           /\ \A i \in 2..Len(ss) :
                /\ ss[i - 1].season < ss[i].season
                /\ ss[i].start = ss[i - 1].end + 1
           /\ \A i, j \in 1..Len(ss) :
                i # j => (ss[i].end < ss[j].start \/ ss[j].end < ss[i].start)

\* a conversion for a series of the table that has more than one range
C8_Witness ==
    /\ absPc = "done"
    /\ absImdbId \in DOMAIN EPISODE_SEASON_MAPPINGS
    /\ Len(EPISODE_SEASON_MAPPINGS[absImdbId].seasons) > 20
    /\ absSeason = 22
    /\ absResult > 1000

-----------------------------------------------------------------------------
(* Properties of validateTorrentEpisode and filterTorrentsByEpisode *)

\* filterTorrentsByEpisode has gone through the torrent
FilterDone == parsePc = "filtered"

\* C14: a title detected as a batch of unknown range is accepted by
\* validateTorrentEpisode for every requested episode and season, and
\* filterTorrentsByEpisode keeps its torrent.
C14_UnknownRangeBatchKept ==
    (FilterDone /\ parseInfo.isBatch /\ parseInfo.batchRange = None)
    => /\ validation[1].matches
       /\ Len(filtered) = 1
       /\ filtered[1].title = parseTitle

\* a batch of unknown range whose title also carries an episode number other
\* than the requested one, in another season than the requested one, is kept
C14_Witness ==
    /\ FilterDone
    /\ parseInfo.isBatch /\ parseInfo.batchRange = None
    /\ parseTitle = "Show Batch S02E03"
    /\ valEpisode = 30 /\ valSeason = 1
    /\ Len(filtered) = 1

\* C15: a title that is not a batch and has no episode number is rejected by
\* validateTorrentEpisode for every requested episode and season, and
\* filterTorrentsByEpisode returns no torrent with that title.
C15_NoEpisodeRejected ==
    (FilterDone /\ ~parseInfo.isBatch /\ parseInfo.episode = NoNum)
    => /\ ~validation[1].matches
       /\ \A i \in 1..Len(filtered) : filtered[i].title # parseTitle

\* a title with no batch marker and no episode number, only a resolution in
\* brackets, has been filtered out
C15_Witness ==
    /\ FilterDone
    /\ parseTitle = "Show[1080]"
    /\ ~parseInfo.isBatch /\ parseInfo.episode = NoNum
    /\ validation[1].reason = "no_episode_detected"
    /\ filtered = <<>>

\* C26: for a batch title, a range [start, end] is captured only when
\* start < end and end - start < 100, and validateTorrentEpisode accepts a
\* batch with a captured range exactly when start <= requestedEpisode <= end
\* (reason batch_contains_episode) and rejects it otherwise (reason
\* batch_episode_out_of_range); filterTorrentsByEpisode keeps it accordingly.
C26_BatchRange ==
    /\ (parsePc \in {"done", "filtered"} /\ parseInfo.batchRange # None)
       => /\ parseInfo.isBatch
          /\ parseInfo.batchRange[1] < parseInfo.batchRange[2]
          /\ parseInfo.batchRange[2] - parseInfo.batchRange[1] < 100
    /\ (FilterDone /\ parseInfo.isBatch /\ parseInfo.batchRange # None)
       => /\ validation[1].matches
             <=> (/\ parseInfo.batchRange[1] <= valEpisode
                  /\ valEpisode <= parseInfo.batchRange[2])
          /\ validation[1].reason =
                IF validation[1].matches THEN "batch_contains_episode"
                ELSE "batch_episode_out_of_range"
          /\ Len(filtered) = IF validation[1].matches THEN 1 ELSE 0

\* the batch of the episodes 1 to 12 is kept for the requested episode 12 of
\* season 2
C26_Witness ==
    /\ FilterDone
    /\ parseTitle = "Show[01-12]"
    /\ parseInfo.batchRange = <<1, 12>>
    /\ valEpisode = 12 /\ valSeason = 2
    /\ validation[1].reason = "batch_contains_episode"
    /\ Len(filtered) = 1

\* titles with two numbers in brackets whose range is not captured: the
\* numbers fall, or they are 100 or more apart
C26_UncapturedRanges ==
    (parsePc = "done" /\ parseTitle \in {"Show[12-01]", "Show[001-150]"})
    => parseInfo.isBatch /\ parseInfo.batchRange = None

-----------------------------------------------------------------------------
(* Properties of stringSimilarity *)

\* stringSimilarity (of the worker or of the stream handler) has returned
SimilarityDone == simPc \in {"worker", "handler"}

\* the score equals the whole number n
ScoreIs(score, n) == score[1] = n * score[2]

\* C16: stringSimilarity(s, s) = 100 for every string s, the empty one
\* included; every score lies between 0 and 100; the score is 0 when exactly
\* one of the two strings is empty.
C16_SimilarityBounds ==
    SimilarityDone
    => /\ simScore[2] > 0
       /\ RatGE(simScore, Whole(0))
       /\ RatGE(Whole(100), simScore)
       /\ simA = simB => ScoreIs(simScore, 100)
       /\ (simA = "") # (simB = "") => ScoreIs(simScore, 0)

\* the worker compared the empty string with itself
C16_Witness ==
    /\ simPc = "worker"
    /\ simA = "" /\ simB = ""
    /\ ScoreIs(simScore, 100)

\* C17: stringSimilarity(a, b) = stringSimilarity(b, a) for all strings a
\* and b.
C17_SimilaritySymmetric ==
    SimilarityDone
    => /\ RatGE(simScore, simSwapped)
       /\ RatGE(simSwapped, simScore)

\* two different strings of different lengths, neither a prefix of the other
\* in both orders of comparison, with a score strictly between 0 and 100
C17_Witness ==
    /\ simPc = "worker"
    /\ simA = "naruto" /\ simB = "narutoshippuden"
    /\ RatGT(simScore, Whole(0))
    /\ RatGT(Whole(100), simScore)
    /\ simScore = simSwapped

-----------------------------------------------------------------------------
(* Properties of normalizeTitle *)

\* C18: normalizeTitle(normalizeTitle(s)) = normalizeTitle(s) for every
\* string s.
C18_NormalizeIdempotent ==
    normPc = "done" => normTwice = normOnce

-----------------------------------------------------------------------------
(* Properties of the show-identity resolver *)

\* the pinned table has an entry for the series and season of the request
HasPinned ==
    /\ TruthyStr(resImdbId)
    /\ DirectKey(resImdbId, resSeason) \in DOMAIN DIRECT_ALLANIME_IDS

\* C9: when DIRECT_ALLANIME_IDS has an entry for the series and season of
\* the request, the resolver returns the pinned show id and issues no search,
\* whatever the title, the aliases and the crosswalk ids are; searches are
\* made only when there is no pinned entry.
C9_PinnedAlwaysWins ==
    HasPinned
    => /\ resSearches = <<>>
       /\ resPc # "search"
       /\ resPc = "done"
            => resResult = DIRECT_ALLANIME_IDS[DirectKey(resImdbId, resSeason)]

IdsSupplied == TruthyNum(resMalId) \/ TruthyNum(resAniListId)

\* the resolver has returned a show that a search found
Returned == resPc = "done" /\ resAccepted # None

\* C10 as stated: with crosswalk ids supplied, a show returned from a search
\* for a string of the alias table or of the season-naming table has a malId
\* or aniListId equal to a supplied id.
C10_TableHitMatchesIds ==
    (Returned /\ IdsSupplied
        /\ (resAccepted[1].kind = "alias" \/ resAccepted[1].via = "season"))
    => IdMatches(ShowById(resResult), resMalId, resAniListId)

\* C10, amended: with crosswalk ids supplied, a show accepted from a search
\* of the alias table has a malId or aniListId equal to a supplied id; a
\* returned show that matches no supplied id was accepted by the fuzzy title
\* stage of the search for the title itself (a string of the season-naming
\* table included), with a score of at least 75.
C10_UnverifiedOnlyByFuzzyTitle ==
    (Returned /\ IdsSupplied
        /\ ~IdMatches(ShowById(resResult), resMalId, resAniListId))
    => /\ resStage = "fuzzy"
       /\ resAccepted[1].kind = "generic"
       /\ resAccepted[1].limit = 15
       /\ RatGE(ScoreOf[resAccepted[1].q][ShowById(resResult)], Whole(75))

\* ids are supplied, the search for a string of the season-naming table has
\* results that match none of them, and the resolver returns the best of them
C10_Witness ==
    /\ Returned /\ IdsSupplied
    /\ resAccepted[1].via = "season"
    /\ resResult = resHits[1].id
    /\ \A i \in 1..Len(resHits) : ~IdMatches(resHits[i], resMalId, resAniListId)

\* the search the resolver has made last, and the score of a show of its
\* results under the query of that search
LastSearch == resSearches[Len(resSearches)]
LastScore(show) == ScoreOf[LastSearch.q][show]

\* the last search was searchAllAnime(title, 15) of findAllAnimeShow
LastIsGeneric == Len(resSearches) > 0 /\ LastSearch.limit = 15

\* ids are supplied and a show of the results examined last matches one
HitsHaveIdMatch ==
    /\ Len(resSearches) > 0
    /\ IdsSupplied
    /\ \E i \in 1..Len(resHits) : IdMatches(resHits[i], resMalId, resAniListId)

\* the first show of the results examined last that matches a supplied id
FirstIdMatch ==
    resHits[CHOOSE i \in 1..Len(resHits) :
        /\ IdMatches(resHits[i], resMalId, resAniListId)
        /\ \A j \in 1..(i - 1) : ~IdMatches(resHits[j], resMalId, resAniListId)]

\* C11: when a result list examined by findAllAnimeShow (for an alias or for
\* the title) has a show whose malId or aniListId equals a supplied id, the
\* resolver returns at once the id of such a show (the first one of the list),
\* whatever the title scores of it and of the other results are.
C11_IdMatchReturned ==
    HitsHaveIdMatch
    => /\ resPc = "done"
       /\ resResult = FirstIdMatch.id
       /\ IdMatches(ShowById(resResult), resMalId, resAniListId)
       /\ resStage \in {"alias", "id"}

\* the search for the title found a show that matches a supplied id next to
\* a show with a higher title score, and the resolver returned the former
C11_Witness ==
    /\ HitsHaveIdMatch
    /\ resPc = "done"
    /\ resStage = "id"
    /\ \E i \in 1..Len(resHits) :
          /\ ~IdMatches(resHits[i], resMalId, resAniListId)
          /\ RatGT(LastScore(resHits[i]), LastScore(ShowById(resResult)))
          /\ RatGE(LastScore(resHits[i]), Whole(75))

\* the results examined last went through the fuzzy stage of findAllAnimeShow:
\* a non-empty answer to searchAllAnime(title, 15) without id match
FuzzyStage == LastIsGeneric /\ Len(resHits) > 0 /\ ~HitsHaveIdMatch

\* C12: the fuzzy stage accepts a show exactly when the best score is at
\* least 60 without supplied crosswalk ids, and at least 75 with supplied ids
\* of which none matched a result; the accepted show is one with the best
\* score; otherwise findAllAnimeShow has no result for that search.
C12_FuzzyThreshold ==
    FuzzyStage
    => /\ (resAccepted # None)
            <=> \E i \in 1..Len(resHits) :
                    RatGE(LastScore(resHits[i]),
                          Whole(IF IdsSupplied THEN 75 ELSE 60))
       /\ resAccepted # None
            => /\ resPc = "done"
               /\ resStage = "fuzzy"
               /\ \E i \in 1..Len(resHits) : resHits[i].id = resResult
               /\ \A i \in 1..Len(resHits) :
                    ~RatGT(LastScore(resHits[i]), LastScore(ShowById(resResult)))
       /\ resAccepted = None => resResult = Null

\* ids are supplied, none matches, and the best title of the results scores
\* at least 60 but less than 75: the search is not accepted
C12_Witness ==
    /\ FuzzyStage
    /\ IdsSupplied
    /\ resAccepted = None
    /\ \E i \in 1..Len(resHits) :
          /\ RatGE(LastScore(resHits[i]), Whole(60))
          /\ ~RatGE(LastScore(resHits[i]), Whole(75))

\* the resolver is through all its stages and none accepted a show: no pinned
\* entry, and every search it made was rejected
NothingAccepted ==
    /\ resPc = "done"
    /\ resStage # "pinned"
    /\ resAccepted = None

\* C13: when neither the pinned table nor any search (alias, season naming,
\* strategies; a failed request answers with the empty list) yields an
\* accepted show, findAllAnimeShowForSeason returns null, and handleStream
\* answers { streams: [] } without error.
C13_NotFoundIsEmpty ==
    NothingAccepted
    => /\ resResult = Null
       /\ streamResponse # None
            => /\ streamResponse[1].error = Null
               /\ streamResponse[1].streams = <<>>

\* all searches of a request were made, the last one with results that were
\* rejected, and handleStream has answered
C13_Witness ==
    /\ NothingAccepted
    /\ Len(resSearches) > 1
    /\ Len(resHits) > 0
    /\ streamResponse # None

-----------------------------------------------------------------------------
(* Properties of the scrobbling *)

\* the last scrobble, not of a movie, has sent an update for an entry
UpdateSent ==
    /\ scrResult # None
    /\ scrResult[1].kind = "success"
    /\ ~scrResult[1].isMovie

\* C20: a scrobble never lowers the recorded progress: the update that
\* scrobbleToAnilist or scrobbleToMal (not for a movie) sends for an entry
\* that is not completed carries a progress that is not below the progress of
\* the entry, whatever the status of the entry was.
C20_ProgressNeverLowered ==
    UpdateSent => scrResult[1].newProgress >= scrResult[1].previousProgress

\* a scrobble of the service has just run and has fetched the entry
ScrobbleRan(service) ==
    /\ scrResult' # None
    /\ scrResult'[1].service = service
    /\ scrResult'[1].kind # "error"

\* C21: a list entry whose status is already COMPLETED (AniList) or completed
\* (MAL) is never updated by a scrobble: the result is a skipped one, no
\* update is sent and the entry keeps its status and progress, for every
\* episode number and content type (series or movie).
C21_CompletedNeverUpdated ==
    [][/\ (ScrobbleToAnilist /\ ScrobbleRan("anilist")
              /\ StatusOf(anilistEntry) = "COMPLETED")
          => (scrResult'[1].kind = "skipped" /\ anilistEntry' = anilistEntry)
       /\ (ScrobbleToMal /\ ScrobbleRan("mal")
              /\ StatusOf(malEntry) = "completed")
          => (scrResult'[1].kind = "skipped" /\ malEntry' = malEntry)]_vars

\* the AniList half of C21 alone
C21_AnilistCompletedSkipped ==
    [][(ScrobbleToAnilist /\ ScrobbleRan("anilist")
           /\ StatusOf(anilistEntry) = "COMPLETED")
       => (scrResult'[1].kind = "skipped" /\ anilistEntry' = anilistEntry)]_vars

-----------------------------------------------------------------------------
(* Properties of the rate limiter *)

\* number of allowed requests of the log
RECURSIVE AllowedCount(_)
AllowedCount(log) ==
    IF log = <<>> THEN 0 ELSE Head(log).count + AllowedCount(Tail(log))

\* C22: for every client address and every interval of RATE_LIMIT_WINDOW
\* (60 s), checkRateLimit allows at most RATE_LIMIT_MAX_REQUESTS (120)
\* requests of the address; every further request in the interval is answered
\* allowed = false with remaining = 0 and a positive retryAfter.
C22_RateLimited ==
    /\ AllowedCount(allowedLog) <= RATE_LIMIT_MAX_REQUESTS
    /\ (rateCheck # None /\ ~rateCheck[1].allowed)
       => (rateCheck[1].remaining = 0 /\ rateCheck[1].retryAfter > 0)

\* the two halves of C22 apart: the requests allowed in the last 60 s
C22_AtMostMaxPerInterval ==
    AllowedCount(allowedLog) <= RATE_LIMIT_MAX_REQUESTS

\* and the answer to a request that is not allowed
C22_DeniedHasRetryAfter ==
    (rateCheck # None /\ ~rateCheck[1].allowed)
    => (rateCheck[1].remaining = 0 /\ rateCheck[1].retryAfter > 0)

-----------------------------------------------------------------------------
(* Properties of the AllDebrid resolution *)

\* resolveAllDebrid has returned after it has polled the status
PolledAndDone == adPc = "done" /\ adPolls > 0

\* the last answer is a status with the code, resp. with a code >= 5
LastCodeIs(code) ==
    adLastPoll[1].kind = "status" /\ adLastPoll[1].code = code
LastCodeFailed ==
    /\ adLastPoll[1].kind = "status"
    /\ adLastPoll[1].code # NoNum
    /\ adLastPoll[1].code >= 5

\* the polling goes on only after answers that end nothing
StillPolling ==
    adPc = "poll" =>
        /\ adPolls < maxAttempts
        /\ adResult = None
        /\ adPolls > 0 =>
              /\ adLastPoll[1].kind # "throws"
              /\ ~LastCodeIs(4)
              /\ ~LastCodeFailed

\* C23 as stated: resolveAllDebrid for a magnet that is not already cached
\* always terminates after at most 30 status polls: it returns the resolved
\* file link as soon as a poll reports status code 4, status 'error' as soon
\* as a poll reports a code >= 5, and otherwise status 'downloading' after the
\* 30th poll; a poll answered with an API error counts toward the 30.
C23_PollingAsStated ==
    /\ adPolls <= maxAttempts
    /\ adPolls = adAttempts
    /\ StillPolling
    /\ PolledAndDone =>
          IF LastCodeIs(4) THEN adResult[1].kind = "link"
          ELSE IF LastCodeFailed THEN adResult[1] = AdError
          ELSE adResult[1] = AdDownloading /\ adPolls = maxAttempts

\* C23 (amended): resolveAllDebrid for a magnet that is not already cached
\* always terminates after at most 30 status polls: it returns what
\* getAllDebridFiles returns (the unlocked link, or null) as soon as a poll
\* reports status code 4, status 'error' as soon as a poll reports a code >= 5,
\* null as soon as a status request throws, and otherwise status
\* 'downloading' after the 30th poll; a poll answered with an API error counts
\* toward the 30.
C23_PollingTerminates ==
    /\ adPolls <= maxAttempts
    /\ adPolls = adAttempts
    /\ StillPolling
    /\ PolledAndDone =>
          IF adLastPoll[1].kind = "throws" THEN adResult[1] = AdNull
          ELSE IF LastCodeIs(4) THEN adResult[1] \in AdFilesResults
          ELSE IF LastCodeFailed THEN adResult[1] = AdError
          ELSE adResult[1] = AdDownloading /\ adPolls = maxAttempts

\* the 30th poll is answered with an API error and resolveAllDebrid returns
\* status 'downloading'
C23_Witness ==
    /\ PolledAndDone
    /\ adPolls = maxAttempts
    /\ adLastPoll[1].kind = "api_error"
    /\ adResult[1] = AdDownloading

-----------------------------------------------------------------------------
(* Properties of the catalog cache *)

\* a pair of catalog and filter options has been loaded at some time
EverLoaded == catLoaded # {}

\* the caller's call ends in this step
CallEnds(c) == catCalls[c].pc # "done" /\ catCalls'[c].pc = "done"

\* the caller's call starts in this step
CallStarts(c) ==
    /\ catCalls[c].pc \in {"idle", "done"}
    /\ catCalls'[c] # catCalls[c]

\* the refresh of the caller fails in this step with a network error or a
\* response that is not OK
RefreshFails(c) ==
    CallEnds(c) /\ catCalls'[c].ending \in {"network_error", "not_ok"}

\* C24: when a refresh fails (network error or non-OK response) and a catalog
\* and filter options were loaded earlier, fetchCatalogData returns the cached
\* pair instead of throwing; it throws only when no pair has ever been loaded;
\* while the cached pair is younger than CACHE_TTL no fetch is made.
C24_StaleOnFailure ==
    [][\A c \in Callers :
          /\ (RefreshFails(c) /\ EverLoaded)
             => /\ catCalls'[c].result =
                      <<ReturnedPair(catalogCache, filterOptionsCache)>>
                /\ BothCached(catalogCache, filterOptionsCache)
          /\ (CallEnds(c) /\ catCalls'[c].result = <<ThrownError>>)
             => ~EverLoaded
          /\ (CallStarts(c)
              /\ BothCached(catalogCache, filterOptionsCache)
              /\ catClock - cacheTimestamp < CACHE_TTL * 1000)
             => /\ catCalls'[c].ending = "fresh"
                /\ catRefreshes' = catRefreshes
                /\ catCalls'[c].result =
                      <<ReturnedPair(catalogCache, filterOptionsCache)>>]_vars

\* a refresh has failed with a network error after the lifetime of a loaded
\* pair is over, and the call has returned the cached pair
C24_Witness ==
    \E c \in Callers :
        /\ catCalls[c].pc = "done"
        /\ catCalls[c].ending = "network_error"
        /\ catCalls[c].result # <<ThrownError>>
        /\ EverLoaded
        /\ catCalls[c].now - cacheTimestamp >= CACHE_TTL * 1000

\* no call stands between the assignment of catalogCache and the assignment
\* of filterOptionsCache
NoRefreshInAssignment == \A c \in Callers : catCalls[c].pc # "filterJson"

\* C29: after any sequence of fetchCatalogData calls, including refreshes that
\* fail part-way and calls that overlap at their await points, the cached
\* catalog and the cached filter options always come from the same successful
\* refresh (so does every pair that a call returns), and a failed refresh
\* leaves both caches and the cache timestamp unchanged.
C29_CachePairFromOneRefresh ==
    /\ NoRefreshInAssignment =>
          /\ catalogCache = filterOptionsCache
          /\ catalogCache # NoNum => <<catalogCache, cacheTimestamp>> \in catLoaded
          /\ catalogCache = NoNum => cacheTimestamp = 0
    /\ \A c \in Callers :
          (catCalls[c].pc = "done" /\ catCalls[c].result # <<ThrownError>>)
          => catCalls[c].result[1].catalog = catCalls[c].result[1].filterOptions

\* C29 for calls that do not overlap: the same statement when at most one
\* call is under way
C29_SequentialCalls ==
    (\E c \in Callers : catCalls[c].pc \in {"idle"})
    => C29_CachePairFromOneRefresh

-----------------------------------------------------------------------------
(* Properties of the torrent search *)

\* the results of the AniDB-ID search that getTorrentStreams has used
UsedAnidbResults == IF TruthyNum(tsAnidbId) THEN tsAnidb ELSE <<>>

\* the results of the title searches
TitleResults == tsNyaa \o tsTosho \o tsSynonymResults

\* C25: getTorrentStreams returns a list in which no two torrents share an
\* infoHash; when the same infoHash is returned by the AniDB-ID search and by
\* a title search (Nyaa, AnimeTosho or synonym search), the entry kept is the
\* AniDB-ID one.
C25_UniqueInfoHash ==
    tsPc = "done" =>
        /\ \A i, j \in 1..Len(tsCombined) :
              i # j => tsCombined[i].infoHash # tsCombined[j].infoHash
        /\ \A i \in 1..Len(tsCombined) :
              tsCombined[i].infoHash \in HashesOf(UsedAnidbResults)
              => tsCombined[i].provider = "AnimeTosho-AniDB"
        /\ HashesOf(UsedAnidbResults) \subseteq HashesOf(tsCombined)

\* a hash found by the AniDB-ID search, by Nyaa and by AnimeTosho, next to
\* another torrent
C25_Witness ==
    /\ tsPc = "done"
    /\ Len(tsCombined) >= 2
    /\ \E h \in HashesOf(UsedAnidbResults) :
          h \in HashesOf(tsNyaa) /\ h \in HashesOf(tsTosho)

-----------------------------------------------------------------------------
(* Properties of the stream handler *)

\* the show is resolved, the number of its released episodes is known, and
\* the absolute episode of the request lies beyond it
BeyondReleased ==
    /\ TruthyStr(hsShowId)
    /\ TruthyNum(hsAvailable)
    /\ convertToAbsoluteEpisode(hsBaseId, hsSeason, hsEpisode) > hsAvailable

\* the requests for the sources of an episode and for its torrents
SourceCalls == {"getEpisodeSources", "getTorrentStreams"}

\* the calls that resolve the show and read its episode counts
ResolveCalls == {"findAllAnimeShowForSeason", "getAllAnimeShowDetails"}

\* C27: when the number of released episodes of the resolved show is known
\* and the absolute episode computed from (season, episode) exceeds it,
\* handleStream requests no episode sources and searches no torrents, and its
\* answer is exactly one "not available yet" entry; the absolute conversion
\* and this test are made only after the show has been resolved.
C27_NotAvailableYet ==
    /\ BeyondReleased
       => /\ \A i \in 1..Len(hsCalls) : hsCalls[i] \notin SourceCalls
          /\ hsPc \notin {"sources", "torrents"}
          /\ hsPc = "done"
             => hsResponse = <<StreamResponse(<<NotAvailableYet(
                    convertToAbsoluteEpisode(hsBaseId, hsSeason, hsEpisode),
                    hsAvailable)>>)>>
    /\ \A i \in 1..Len(hsCalls) :
          hsCalls[i] = "convertToAbsoluteEpisode"
          => /\ TruthyStr(hsShowId)
             /\ \A j \in (i + 1)..Len(hsCalls) : hsCalls[j] \notin ResolveCalls
    /\ hsAbsolute # NoNum => TruthyStr(hsShowId)

\* a request for the first episode of the second season of a mapped series
\* of which eight episodes are released: the absolute episode 9 is answered
\* with the notice although the episode of the request is below the count
C27_Witness ==
    /\ hsPc = "done"
    /\ BeyondReleased
    /\ hsEpisode < hsAvailable
    /\ hsAbsolute = 9
    /\ Len(hsResponse[1].streams) = 1

-----------------------------------------------------------------------------
(* Properties of the debrid link cache *)

\* the request was answered from the cache
ServedFromCache == dcServed # None /\ dcRequest # None

\* C28: resolveDebrid returns a cached direct link only to a request with
\* the same provider, infoHash, episode and season as the request whose
\* resolution stored it: a link resolved for one (season, episode) of a
\* torrent is never served for a request that names another season or
\* another episode of the same torrent.
C28_CachedLinkOfSameRequest ==
    ServedFromCache
    => /\ dcServed[1].provider = dcRequest[1].provider
       /\ dcServed[1].infoHash = dcRequest[1].infoHash
       /\ dcServed[1].episode = dcRequest[1].episode
       /\ dcServed[1].season = dcRequest[1].season

\* the part of C28 the cache key gives: a cached link is served only for
\* the provider and the torrent it was resolved for, within the hour, and
\* for the same episode when both requests name an episode above 0
C28_SameProviderAndTorrent ==
    ServedFromCache
    => /\ dcServed[1].provider = dcRequest[1].provider
       /\ dcServed[1].infoHash = dcRequest[1].infoHash
       /\ dcResult = <<AdLink(DirectLink(dcServed[1]))>>
       /\ (TruthyNum(dcServed[1].episode) /\ TruthyNum(dcRequest[1].episode))
          => dcServed[1].episode = dcRequest[1].episode

\* the cached link of one season served to a request for the same episode
\* of the other season
C28_OtherSeasonServed ==
    /\ ServedFromCache
    /\ dcServed[1].episode = 5
    /\ dcRequest[1].episode = 5
    /\ dcServed[1].season # dcRequest[1].season

====
